---- MODULE Spec2Model ----
(***************************************************************************)
(* Amazon listing optimizer: the generative optimization engine            *)
(* (GeminiOptimizer), the optimize routes, the product routes, the history *)
(* routes, the maintenance scripts and the record store they share,        *)
(* modelled from the JavaScript sources.                                   *)
(*                                                                         *)
(* Time is the process clock Date.now() in milliseconds.  The store keeps  *)
(* TIMESTAMP columns at a resolution of one second.                        *)
(***************************************************************************)
EXTENDS Integers, Sequences, FiniteSets, TLC

(***************************************************************************)
(* Bounds of the model.                                                    *)
(***************************************************************************)
\* clock value at which the process starts (any value past the first interval)
StartTime == 2000
\* how far the engine's clock may run past StartTime
EngineHorizon == 8000
\* largest number of records handed to the engine, over all its callers
MaxBatch == 3
\* records handed to the engine by all its callers when there are several
MaxShared == 2
\* requests, engine calls and script runs
MaxReqs == 2
\* identifiers the product routes ask the site for, over all their requests
MaxWanted == 3
\* requests and calls in flight next to which a script runs
MaxBeside == 0
\* store statements that may fail for a transient reason
MaxFaults == 1

(***************************************************************************)
(* Program constants.                                                      *)
(***************************************************************************)
minRequestInterval == 1000
delayBetweenBatches == 5000
\* fetchMultipleProducts(asins, delayMs = 2000)
delayMs == 2000
Minute == 60000
\* INTERVAL 1 HOUR of the recent-optimization query
Hour == 3600000
\* the optimize batch route takes at most this many identifiers
MaxOptimizeBatch == 5
\* the product batch route takes at most this many identifiers
MaxFetchBatch == 10
\* fetchProductDetails refuses a title shorter than this
MinTitleLength == 10
Day == 86400000

\* the four generative calls of one optimizeProduct, in Promise.all order:
\* 1 title, 2 bullet points, 3 description, 4 keywords
Kinds == 1..4
\* instants other than timer deadlines at which the engine is called
EngineInstants == {StartTime + 1500}

VARIABLES
    now,              \* Date.now()
    lastRequestTime,  \* GeminiOptimizer.lastRequestTime
    requestCount,     \* GeminiOptimizer.requestCount
    lastDispatch,     \* time of the latest call to model.generateContent, -1 if none
    minDispatchGap,   \* least time between two consecutive such calls, -1 if fewer than two
    stragglers        \* wake times of the gated calls that rejected records left behind

VARIABLES
    tables,           \* the tables that exist
    autoInc,          \* the AUTO_INCREMENT counters of products and optimizations
    products,         \* table products: rows [id, asin, titleLen, rating, updatedAt]
    optimizations,    \* table optimizations: rows [id, productId, asin, keywords, createdAt]
    history,          \* table optimization_history: rows [asin, optimizationId, actionType, createdAt]
    keywordTracking,  \* table keyword_tracking: the (asin, keyword) pairs, unique
    reqs,             \* the requests to the routes, the calls of the engine and the
                      \* script runs, by number
    faults            \* store statements that have failed so far

engineVars == <<lastRequestTime, requestCount, lastDispatch, minDispatchGap, stragglers>>
storeVars == <<tables, autoInc, products, optimizations, history, keywordTracking>>
optVars == <<reqs, faults>>
vars == <<now, engineVars, storeVars, optVars>>

Range(q) == {q[j] : j \in 1..Len(q)}
Min(a, b) == IF a <= b THEN a ELSE b

(***************************************************************************)
(* A request, an engine call or a script run advances from one await to    *)
(* the next; pc names what it is waiting for.                              *)
(***************************************************************************)

NoCall == [st |-> "none", wakeAt |-> 0]
NoCalls == [k \in Kinds |-> NoCall]

\* the loop of an optimizeMultipleProducts call: its index i, results, errors,
\* the end time of the record before (ended, endedOk) and the time from that
\* end to the start of record i (gap)
NoBatch == [pc |-> "idle", n |-> 0, i |-> 0, results |-> <<>>, errors |-> <<>>,
            delayUntil |-> 0, ended |-> -1, endedOk |-> TRUE, gap |-> -1]

NoResp == [status |-> 0, source |-> "", opt |-> 0]

NewRequest(kind, items) ==
    [kind |-> kind, pc |-> "start", asins |-> items,
     found |-> <<>>,        \* the product rows selected
     gateAt |-> -1,         \* clock at the recent-optimization query
     gateNewest |-> -1,     \* newest created_at of the identifier at that query, -1 if none
     calls |-> NoCalls,     \* calls[k]: generative call k of the record being optimized
     batch |-> NoBatch,     \* the loop of optimizeMultipleProducts
     keywords |-> <<>>,     \* what generateKeywords of the record returned
     gens |-> <<>>,         \* generations: [asin, productId, ok, keywords]
     cur |-> 0,             \* the generation being persisted, the statement of a script
     optId |-> 0,           \* insertId of its optimization row
     kwLeft |-> <<>>,       \* its keywords still to be stored
     stored |-> <<>>,       \* ids of the optimization rows this request inserted
     logged |-> <<>>,       \* ids of those whose 'created' history row it inserted
     genCalls |-> 0,        \* calls to model.generateContent made for this request
     scraped |-> <<>>,      \* results of the site fetches: [asin, success, error, titleLen, rating]
     fetched |-> 0,         \* site fetches made for this request
     wakeAt |-> 0,          \* when the timer it waits on is due
     pending |-> 0,         \* statements issued together and not answered yet
     queries |-> 0,         \* store statements issued
     writes |-> 0,          \* store writes that took effect
     failedAt |-> "",       \* the statement that threw, if any
     failedCall |-> 0,      \* the generative call that rejected, if any
     input |-> <<>>,        \* the body and parameters of a request
     data |-> <<>>,         \* the fields of the response, the locals of a script
     resp |-> NoResp]

Respond(q, status, source, opt) ==
    [q EXCEPT !.pc = "done", !.resp = [status |-> status, source |-> source, opt |-> opt]]

InFlight(q) == q.pc # "done"
Requests == Range(reqs)
Completed(q) == q.pc = "done" /\ q.failedAt = ""

(***************************************************************************)
(* Texts and JSON values.  A text is the sequence of its characters; a     *)
(* JSON value is a record [type, text, items].                             *)
(***************************************************************************)

\* the longest text drawn over the alphabet
MaxPayloadLen == 3

Alphabet == {"a", ",", "[", "]", "'", "\"", " "}
Digits == {"0", "1", "2", "3", "4", "5", "6", "7", "8", "9"}
QuoteChars == {"'", "\""}

JsonString(text) == [type |-> "string", text |-> text, items |-> <<>>]
JsonNumber(text) == [type |-> "number", text |-> text, items |-> <<>>]
JsonArray(items) == [type |-> "array", text |-> <<>>, items |-> items]
JsonObject == [type |-> "object", text |-> <<>>, items |-> <<>>]
JsonNull == [type |-> "null", text |-> <<>>, items |-> <<>>]

\* String.prototype.includes
includes(s, sub) ==
    \E i \in 1..(Len(s) - Len(sub) + 1) : SubSeq(s, i, i + Len(sub) - 1) = sub

Digit(n) ==
    CASE n = 0 -> "0" [] n = 1 -> "1" [] n = 2 -> "2" [] n = 3 -> "3" [] n = 4 -> "4"
      [] n = 5 -> "5" [] n = 6 -> "6" [] n = 7 -> "7" [] n = 8 -> "8" [] OTHER -> "9"

RECURSIVE NumberText(_)
\* a non-negative number in a template literal
NumberText(n) ==
    IF n < 10 THEN <<Digit(n)>> ELSE Append(NumberText(n \div 10), Digit(n % 10))

RECURSIVE SkipWs(_, _)
\* the first position at or after i that holds no white space
SkipWs(s, i) ==
    IF i <= Len(s) /\ s[i] = " " THEN SkipWs(s, i + 1) ELSE i

RECURSIVE FindQuote(_, _)
\* the position of the double quote that closes a string entered before i
\* (a backslash takes the character after it along), 0 if none
FindQuote(s, i) ==
    IF i > Len(s) THEN 0
    ELSE IF s[i] = "\"" THEN i
    ELSE IF s[i] = "\\" THEN FindQuote(s, i + 2)
    ELSE FindQuote(s, i + 1)

RECURSIVE Unescape(_)
\* the characters a string literal stands for: \" and \\ are the escapes that
\* JSON.stringify writes for the texts of the model; ok is FALSE for any other
Unescape(s) ==
    IF s = <<>> THEN [ok |-> TRUE, text |-> <<>>]
    ELSE IF Head(s) # "\\"
    THEN LET r == Unescape(Tail(s)) IN [r EXCEPT !.text = <<Head(s)>> \o @]
    ELSE IF Len(s) >= 2 /\ s[2] \in {"\"", "\\"}
    THEN LET r == Unescape(SubSeq(s, 3, Len(s))) IN [r EXCEPT !.text = <<s[2]>> \o @]
    ELSE [ok |-> FALSE, text |-> <<>>]

RECURSIVE EndOfDigits(_, _)
EndOfDigits(s, i) ==
    IF i <= Len(s) /\ s[i] \in Digits THEN EndOfDigits(s, i + 1) ELSE i

ParseFail == [ok |-> FALSE, val |-> JsonNull, next |-> 0]

RECURSIVE ParseValue(_, _)
RECURSIVE ParseElems(_, _, _)
\* the JSON value that starts at position i of s, and where it ends
ParseValue(s, i) ==
    IF i > Len(s) THEN ParseFail
    ELSE IF s[i] = "\"" THEN
        LET j == FindQuote(s, i + 1)
            u == Unescape(SubSeq(s, i + 1, j - 1))
        IN IF j = 0 \/ ~u.ok THEN ParseFail
           ELSE [ok |-> TRUE, val |-> JsonString(u.text), next |-> j + 1]
    ELSE IF s[i] \in Digits THEN
        LET j == EndOfDigits(s, i) IN
        IF s[i] = "0" /\ j > i + 1 THEN ParseFail
        ELSE [ok |-> TRUE, val |-> JsonNumber(SubSeq(s, i, j - 1)), next |-> j]
    ELSE IF s[i] = "[" THEN
        LET k == SkipWs(s, i + 1) IN
        IF k <= Len(s) /\ s[k] = "]"
        THEN [ok |-> TRUE, val |-> JsonArray(<<>>), next |-> k + 1]
        ELSE ParseElems(s, k, <<>>)
    ELSE IF s[i] = "{" THEN
        LET k == SkipWs(s, i + 1) IN
        IF k <= Len(s) /\ s[k] = "}"
        THEN [ok |-> TRUE, val |-> JsonObject, next |-> k + 1]
        ELSE ParseFail
    ELSE ParseFail

\* the elements of an array from position i on, after those in acc
ParseElems(s, i, acc) ==
    LET r == ParseValue(s, SkipWs(s, i)) IN
    IF ~r.ok THEN ParseFail
    ELSE LET k == SkipWs(s, r.next) IN
         IF k > Len(s) THEN ParseFail
         ELSE IF s[k] = "," THEN ParseElems(s, k + 1, Append(acc, r.val))
         ELSE IF s[k] = "]"
         THEN [ok |-> TRUE, val |-> JsonArray(Append(acc, r.val)), next |-> k + 1]
         ELSE ParseFail

\* JSON.parse of a text: ok is FALSE when it throws
JsonParse(s) ==
    LET r == ParseValue(s, SkipWs(s, 1)) IN
    IF r.ok /\ SkipWs(s, r.next) = Len(s) + 1 THEN r ELSE ParseFail

RECURSIVE Escape(_)
\* a string's characters as JSON.stringify writes them between the quotes
Escape(s) ==
    IF s = <<>> THEN <<>>
    ELSE (IF Head(s) \in {"\"", "\\"} THEN <<"\\", Head(s)>> ELSE <<Head(s)>>)
             \o Escape(Tail(s))

RECURSIVE StringifyItems(_)
StringifyItems(list) ==
    IF list = <<>> THEN <<>>
    ELSE <<"\"">> \o Escape(Head(list)) \o <<"\"">>
             \o (IF Len(list) = 1 THEN <<>> ELSE <<",">>)
             \o StringifyItems(Tail(list))

\* JSON.stringify of an array of strings
stringify(list) == <<"[">> \o StringifyItems(list) \o <<"]">>

RECURSIVE trim(_)
\* String.prototype.trim
trim(s) ==
    IF s = <<>> THEN s
    ELSE IF Head(s) = " " THEN trim(Tail(s))
    ELSE IF s[Len(s)] = " " THEN trim(SubSeq(s, 1, Len(s) - 1))
    ELSE s

RECURSIVE SplitFrom(_, _, _)
\* the pieces of s between commas: cur is the piece being read from position i
SplitFrom(s, i, cur) ==
    IF i > Len(s) THEN <<cur>>
    ELSE IF s[i] = "," THEN <<cur>> \o SplitFrom(s, i + 1, <<>>)
    ELSE SplitFrom(s, i + 1, Append(cur, s[i]))

\* s.split(',')
split(s) == SplitFrom(s, 1, <<>>)

\* s.slice(1, -1)
slice(s) == SubSeq(s, 2, Len(s) - 1)

\* k.replace(/['"]/g, '')
replaceQuotes(k) == LET Keep(c) == c \notin QuoteChars IN SelectSeq(k, Keep)

\* s.startsWith('[') && s.endsWith(']')
Bracketed(s) == Len(s) >= 1 /\ s[1] = "[" /\ s[Len(s)] = "]"

RECURSIVE join(_)
\* Array.prototype.toString of an array of strings and numbers
join(items) ==
    IF items = <<>> THEN <<>>
    ELSE IF Len(items) = 1 THEN items[1].text
    ELSE items[1].text \o <<",">> \o join(Tail(items))

\* String(raw), which is also how JSON.parse reads an argument that is no text
String(raw) == IF raw.type = "array" THEN join(raw.items) ELSE raw.text

\* the value is falsy: null or the empty text
Falsy(raw) == raw.type = "null" \/ (raw.type = "string" /\ raw.text = <<>>)

EmptyArrayText == <<"[", "]">>

StringsOf(pieces) == [j \in 1..Len(pieces) |-> JsonString(pieces[j])]
MapTrim(pieces) == [j \in 1..Len(pieces) |-> trim(pieces[j])]
MapTrimReplace(pieces) == [j \in 1..Len(pieces) |-> replaceQuotes(trim(pieces[j]))]
NonEmpty(pieces) == LET Some(k) == Len(k) > 0 IN SelectSeq(pieces, Some)

(***************************************************************************)
(* GeminiOptimizer.rateLimitCheck, up to its await: the decision taken     *)
(* from one reading t of the clock and the last request time.              *)
(***************************************************************************)
rateLimitCheck(t, last) ==
    IF t - last < minRequestInterval
    THEN [wait |-> TRUE, wakeAt |-> t + (minRequestInterval - (t - last))]
    ELSE [wait |-> FALSE, wakeAt |-> t]

\* the least gap between consecutive dispatches, after a dispatch at t
GapAfter(e, t) ==
    IF e.disp = -1 THEN e.gap
    ELSE IF e.gap = -1 \/ t - e.disp < e.gap THEN t - e.disp ELSE e.gap

(***************************************************************************)
(* The part of rateLimitCheck after the wait: the stamp and the count,     *)
(* followed by the call to model.generateContent at the same instant.      *)
(***************************************************************************)
GateStamp(e, t) ==
    [e EXCEPT !.last = t, !.count = @ + 1, !.disp = t, !.gap = GapAfter(e, t)]

\* the engine's fields, and one caller next to them
Engine == [last |-> lastRequestTime, count |-> requestCount,
           disp |-> lastDispatch, gap |-> minDispatchGap, strag |-> stragglers]

SetEngine(e) ==
    /\ lastRequestTime' = e.last
    /\ requestCount' = e.count
    /\ lastDispatch' = e.disp
    /\ minDispatchGap' = e.gap
    /\ stragglers' = e.strag

On(r) == [eng |-> Engine, req |-> reqs[r]]

SetBoth(r, s) ==
    /\ SetEngine(s.eng)
    /\ reqs' = [reqs EXCEPT ![r] = s.req]

(***************************************************************************)
(* optimizeTitle, optimizeBulletPoints, optimizeDescription and            *)
(* generateKeywords up to their first await: rateLimitCheck runs            *)
(* synchronously, and without a wait the stamp, the count and the call to  *)
(* model.generateContent follow in the same turn.                          *)
(***************************************************************************)
GateEnter(s, k, t) ==
    LET g == rateLimitCheck(t, s.eng.last) IN
    IF g.wait
    THEN [s EXCEPT !.req.calls[k] = [st |-> "waiting", wakeAt |-> g.wakeAt]]
    ELSE [eng |-> GateStamp(s.eng, t),
          req |-> [s.req EXCEPT !.calls[k] = [st |-> "inflight", wakeAt |-> 0],
                                !.genCalls = @ + 1]]

(***************************************************************************)
(* optimizeProduct up to its await: Promise.all evaluates the four         *)
(* optimize* calls in order, all at one reading of the clock.              *)
(***************************************************************************)
RECURSIVE GateRun(_, _, _)
GateRun(s, k, t) ==
    IF k > 4 THEN s ELSE GateRun(GateEnter(s, k, t), k + 1, t)

\* optimizeProduct(productData) is entered at time t
optimizeProduct(s, t) ==
    GateRun([s EXCEPT !.req.calls = NoCalls, !.req.keywords = <<>>], 1, t)

\* optimizeProduct(products[i]) is entered at time t by the loop
StartJob(s, i, t) ==
    LET b == s.req.batch IN
    [optimizeProduct(s, t) EXCEPT
        !.req.batch = [b EXCEPT !.pc = "run", !.i = i,
                                !.gap = IF b.ended = -1 THEN -1 ELSE t - b.ended,
                                !.ended = -1]]

\* the gated calls of a rejected record stay scheduled: their timers fire
\* later; what its other calls return is discarded
Abandon(s) ==
    LET Waiting(c) == c.st = "waiting"
        left == SelectSeq(s.req.calls, Waiting)
    IN [eng |-> [s.eng EXCEPT !.strag = @ \o [j \in 1..Len(left) |-> left[j].wakeAt]],
        req |-> [s.req EXCEPT !.calls = NoCalls]]

\* every call of the record has resolved
AllOk(cs) ==
    /\ \A k \in Kinds : cs[k].st \in {"ok", "none"}
    /\ \E k \in Kinds : cs[k].st = "ok"

\* what optimizeMultipleProducts returns
BatchReturn(b, count) ==
    [successful |-> b.results,
     failed |-> b.errors,
     totalRequests |-> count,
     summary |-> [total |-> b.n, successful |-> Len(b.results), failed |-> Len(b.errors)]]

(***************************************************************************)
(* The record store (MySQL behind executeQuery).                           *)
(***************************************************************************)

\* catalog identifiers are strings; a string is its sequence of characters
AsinA == <<"B", "0", "8", "N", "5", "W", "R", "W", "N", "W">>
AsinB == <<"B", "0", "0", "0", "0", "0", "0", "0", "0", "1">>
AsinC == <<"B", "0", "0", "0", "0", "0", "0", "0", "0", "2">>
\* tokens that are not identifiers: lower case, and too short
LowerA == <<"b", "0", "8", "n", "5", "w", "r", "w", "n", "w">>
ShortA == <<"B", "0", "8">>

\* the characters [A-Z0-9]
UpperAlnum ==
    {"A", "B", "C", "D", "E", "F", "G", "H", "I", "J", "K", "L", "M", "N", "O", "P",
     "Q", "R", "S", "T", "U", "V", "W", "X", "Y", "Z",
     "0", "1", "2", "3", "4", "5", "6", "7", "8", "9"}

\* a slip that applies the pattern only, without the length
isValidASINAnyLength(asin) ==
    /\ Len(asin) >= 1
    /\ \A j \in 1..Len(asin) : asin[j] \in UpperAlnum

\* AmazonScraper.isValidASIN on a string
isValidASIN(asin) ==
    /\ Len(asin) = 10
    /\ \A j \in 1..Len(asin) : asin[j] \in UpperAlnum

UpperChar(c) ==
    CASE c = "b" -> "B" [] c = "n" -> "N" [] c = "w" -> "W" [] c = "r" -> "R"
      [] OTHER -> c

\* the columns are utf8mb4_unicode_ci: = and IN compare without regard to case
Collate(a) == [j \in 1..Len(a) |-> UpperChar(a[j])]
SqlEq(a, b) == Collate(a) = Collate(b)

\* NOW() and CURRENT_TIMESTAMP: the clock cut to whole seconds
DbNow(t) == (t \div 1000) * 1000

\* a Date bound to a TIMESTAMP column: its milliseconds are rounded
DbRound(t) == ((t + 500) \div 1000) * 1000

\* createDatabase makes these four
AllTables == {"products", "optimizations", "optimization_history", "keyword_tracking"}

\* the table a FOREIGN KEY of the table refers to
Parent(table) ==
    CASE table = "optimizations" -> "products"
      [] table = "optimization_history" -> "optimizations"
      [] OTHER -> "none"

Store == [tables |-> tables, autoInc |-> autoInc, products |-> products,
          optimizations |-> optimizations, history |-> history,
          keywordTracking |-> keywordTracking]

SetStore(S) ==
    /\ tables' = S.tables
    /\ autoInc' = S.autoInc
    /\ products' = S.products
    /\ optimizations' = S.optimizations
    /\ history' = S.history
    /\ keywordTracking' = S.keywordTracking

\* the orders in which a statement without ORDER BY may return its rows
Orders(rows) ==
    {[j \in 1..Len(rows) |-> rows[f[j]]] :
        f \in {g \in [1..Len(rows) -> 1..Len(rows)] :
                  \A i, j \in 1..Len(rows) : i # j => g[i] # g[j]}}

\* SELECT * FROM products WHERE asin = ? ORDER BY updated_at DESC LIMIT 1
\* (asin is UNIQUE: at most one row matches)
SelectProduct(asin) ==
    LET Match(row) == SqlEq(row.asin, asin) IN SelectSeq(products, Match)

\* SELECT * FROM products WHERE asin IN (...): the results the statement may
\* give, the matching rows in any order
SelectProductsIn(asins) ==
    LET Match(row) == \E j \in 1..Len(asins) : SqlEq(row.asin, asins[j])
    IN Orders(SelectSeq(products, Match))

\* a slip that drops the one-hour window from the query
SelectRecentAnyAge(asin, t) ==
    LET rows == {o \in Range(optimizations) : SqlEq(o.asin, asin)}
    IN {o \in rows : \A p \in rows : p.createdAt <= o.createdAt}

\* SELECT * FROM optimizations WHERE asin = ? AND created_at >
\* DATE_SUB(NOW(), INTERVAL 1 HOUR) ORDER BY created_at DESC LIMIT 1:
\* the rows the statement may return as its first (rows of equal created_at
\* come in no defined order); empty when no row qualifies
SelectRecentOptimization(asin, t) ==
    LET rows == {o \in Range(optimizations) :
                    SqlEq(o.asin, asin) /\ o.createdAt > DbNow(t) - Hour}
    IN {o \in rows : \A p \in rows : p.createdAt <= o.createdAt}

\* SELECT asin FROM optimizations WHERE id = ?
SelectOptimizationById(id) ==
    LET Match(o) == o.id = id IN SelectSeq(optimizations, Match)

\* the newest created_at among the stored optimizations of an asin
NewestCreated(asin) ==
    LET ts == {o.createdAt : o \in {x \in Range(optimizations) : SqlEq(x.asin, asin)}}
    IN IF ts = {} THEN -1 ELSE CHOOSE m \in ts : \A u \in ts : u <= m

\* values as JSON carries them: null, a number (kept as a hundred times its
\* value) or a string
NullValue == [type |-> "null", x100 |-> 0, text |-> <<>>]
NumberValue(x100) == [type |-> "number", x100 |-> x100, text |-> <<>>]
StringValue(text) == [type |-> "string", x100 |-> 0, text |-> text]

\* what a DECIMAL(3,2) column keeps of a bound parameter: -1 is NULL
StoreDecimal(v) == IF v.type = "null" THEN -1 ELSE v.x100

\* what the driver hands back for a DECIMAL(3,2) column: its text with two
\* decimals, since decimalNumbers is not set in dbConfig
ReadDecimal(d) ==
    IF d = -1 THEN NullValue
    ELSE StringValue(NumberText(d \div 100) \o <<".">>
                     \o <<Digit((d \div 10) % 10), Digit(d % 10)>>)

\* created_at of a new row: the column's default CURRENT_TIMESTAMP, or the
\* Date the statement binds
DefaultTime == [given |-> FALSE, date |-> 0]
GivenTime(date) == [given |-> TRUE, date |-> date]
CreatedAt(at, t) == IF at.given THEN DbRound(at.date) ELSE DbNow(t)

\* INSERT INTO products ... ON DUPLICATE KEY UPDATE ..., updated_at =
\* CURRENT_TIMESTAMP: a new row takes the counter's value
UpsertProduct(asin, titleLen, rating, t) ==
    IF \E j \in 1..Len(products) : SqlEq(products[j].asin, asin)
    THEN [j \in 1..Len(products) |->
             IF SqlEq(products[j].asin, asin)
             THEN [products[j] EXCEPT !.titleLen = titleLen,
                                      !.rating = StoreDecimal(rating),
                                      !.updatedAt = DbNow(t)]
             ELSE products[j]]
    ELSE Append(products, [id |-> autoInc.products, asin |-> asin,
                           titleLen |-> titleLen, rating |-> StoreDecimal(rating),
                           updatedAt |-> DbNow(t)])

\* INSERT IGNORE INTO products: a row of the same asin is left as it is
InsertIgnoreProduct(asin, titleLen, rating, t) ==
    IF \E j \in 1..Len(products) : SqlEq(products[j].asin, asin)
    THEN products
    ELSE Append(products, [id |-> autoInc.products, asin |-> asin,
                           titleLen |-> titleLen, rating |-> StoreDecimal(rating),
                           updatedAt |-> DbNow(t)])

\* the counter of products after an insert that may end as an update or be
\* ignored: InnoDB draws a value for the row before it finds the duplicate,
\* and whether the value is then lost depends on innodb_autoinc_lock_mode
NextProductId(rows, burn) ==
    IF Len(rows) > Len(products) \/ burn THEN autoInc.products + 1
    ELSE autoInc.products

\* INSERT INTO optimizations (...): the row gets the next id
InsertOptimizationRow(productId, asin, kw, at) ==
    Append(optimizations,
           [id |-> autoInc.optimizations, productId |-> productId, asin |-> asin,
            keywords |-> kw, createdAt |-> at])

\* INSERT INTO optimization_history (asin, optimization_id, action_type[, created_at])
InsertHistoryRow(asin, optId, type, at) ==
    Append(history, [asin |-> asin, optimizationId |-> optId, actionType |-> type,
                     createdAt |-> at])

\* INSERT INTO keyword_tracking ... ON DUPLICATE KEY UPDATE updated_at
UpsertKeyword(asin, keyword) ==
    IF \E kt \in keywordTracking : SqlEq(kt[1], asin) /\ kt[2] = keyword
    THEN keywordTracking
    ELSE keywordTracking \cup {<<asin, keyword>>}

\* UPDATE optimizations SET suggested_keywords = ? WHERE id = ?
UpdateKeywords(id, kw) ==
    [j \in 1..Len(optimizations) |->
        IF optimizations[j].id = id
        THEN [optimizations[j] EXCEPT !.keywords = kw]
        ELSE optimizations[j]]

\* DROP TABLE IF EXISTS: the table, its rows and its counter go
DropTable(table) ==
    [Store EXCEPT
        !.tables = @ \ {table},
        !.autoInc = [c \in DOMAIN @ |-> IF c = table THEN 1 ELSE @[c]],
        !.products = IF table = "products" THEN <<>> ELSE @,
        !.optimizations = IF table = "optimizations" THEN <<>> ELSE @,
        !.history = IF table = "optimization_history" THEN <<>> ELSE @,
        !.keywordTracking = IF table = "keyword_tracking" THEN {} ELSE @]

\* the names of the tables as texts
TableText(table) ==
    CASE table = "products" -> <<"p", "r", "o", "d", "u", "c", "t", "s">>
      [] table = "optimizations" -> <<"o", "p", "t", "i", "m", "i", "z", "a", "t", "i", "o", "n", "s">>
      [] table = "optimization_history" -> <<"o", "p", "t", "i", "m", "i", "z", "a", "t", "i", "o", "n", "_", "h", "i", "s", "t", "o", "r", "y">>
      [] OTHER -> <<"k", "e", "y", "w", "o", "r", "d", "_", "t", "r", "a", "c", "k", "i", "n", "g">>

\* the messages with which the server refuses a statement
NoSuchTable(table) ==
    <<"T", "a", "b", "l", "e", " ", "'", "a", "m", "a", "z", "o", "n", "_", "o", "p", "t", "i", "m", "i", "z", "e", "r", "_", "d", "b", ".">> \o TableText(table) \o <<"'", " ", "d", "o", "e", "s", "n", "'", "t", " ", "e", "x", "i", "s", "t">>
NoReferencedTable(table) ==
    <<"F", "a", "i", "l", "e", "d", " ", "t", "o", " ", "o", "p", "e", "n", " ", "t", "h", "e", " ", "r", "e", "f", "e", "r", "e", "n", "c", "e", "d", " ", "t", "a", "b", "l", "e", " ", "'">> \o TableText(table) \o <<"'">>
MsgForeignKey == <<"C", "a", "n", "n", "o", "t", " ", "a", "d", "d", " ", "o", "r", " ", "u", "p", "d", "a", "t", "e", " ", "a", " ", "c", "h", "i", "l", "d", " ", "r", "o", "w", ":", " ", "a", " ", "f", "o", "r", "e", "i", "g", "n", " ", "k", "e", "y", " ", "c", "o", "n", "s", "t", "r", "a", "i", "n", "t", " ", "f", "a", "i", "l", "s">>
MsgTruncated == <<"D", "a", "t", "a", " ", "t", "r", "u", "n", "c", "a", "t", "e", "d", " ", "f", "o", "r", " ", "c", "o", "l", "u", "m", "n", " ", "'", "a", "c", "t", "i", "o", "n", "_", "t", "y", "p", "e", "'", " ", "a", "t", " ", "r", "o", "w", " ", "1">>
MsgSyntax == <<"Y", "o", "u", " ", "h", "a", "v", "e", " ", "a", "n", " ", "e", "r", "r", "o", "r", " ", "i", "n", " ", "y", "o", "u", "r", " ", "S", "Q", "L", " ", "s", "y", "n", "t", "a", "x">>
MsgArguments == <<"I", "n", "c", "o", "r", "r", "e", "c", "t", " ", "a", "r", "g", "u", "m", "e", "n", "t", "s", " ", "t", "o", " ", "m", "y", "s", "q", "l", "d", "_", "s", "t", "m", "t", "_", "e", "x", "e", "c", "u", "t", "e">>

Refused(msg) ==
    [ok |-> FALSE, store |-> Store, insertId |-> 0, rows |-> <<>>, message |-> msg]
Answered(S, id, rows) ==
    [ok |-> TRUE, store |-> S, insertId |-> id, rows |-> rows, message |-> <<>>]

(***************************************************************************)
(* pool.execute of one statement at time t: whether the server accepts it, *)
(* the store after it, the insertId and the rows of its result.  A         *)
(* statement on a table that does not exist is refused, and so is a row    *)
(* whose FOREIGN KEY finds no parent.                                      *)
(***************************************************************************)
Execute(st, t, burn) ==
    CASE st.op = "set" -> Answered(Store, 0, <<>>)
      [] st.op = "createTable" ->
            IF st.table \in tables THEN Answered(Store, 0, <<>>)
            ELSE IF Parent(st.table) # "none" /\ Parent(st.table) \notin tables
            THEN Refused(NoReferencedTable(Parent(st.table)))
            ELSE Answered([Store EXCEPT !.tables = @ \cup {st.table}], 0, <<>>)
      [] st.op = "dropTable" -> Answered(DropTable(st.table), 0, <<>>)
      [] st.op \in {"upsertProduct", "insertIgnoreProduct"} ->
            IF "products" \notin tables THEN Refused(NoSuchTable("products"))
            ELSE LET rows == IF st.op = "upsertProduct"
                             THEN UpsertProduct(st.asin, st.titleLen, st.rating, t)
                             ELSE InsertIgnoreProduct(st.asin, st.titleLen, st.rating, t)
                 IN Answered([Store EXCEPT !.products = rows,
                                           !.autoInc.products = NextProductId(rows, burn)],
                             0, <<>>)
      [] st.op = "selectProduct" ->
            IF "products" \notin tables THEN Refused(NoSuchTable("products"))
            ELSE Answered(Store, 0, SelectProduct(st.asin))
      [] st.op = "insertOptimization" ->
            IF "optimizations" \notin tables THEN Refused(NoSuchTable("optimizations"))
            ELSE IF \A p \in Range(products) : p.id # st.productId
            THEN [Refused(MsgForeignKey) EXCEPT !.store.autoInc.optimizations =
                                                    IF burn THEN @ + 1 ELSE @]
            ELSE Answered([Store EXCEPT
                              !.optimizations = InsertOptimizationRow(st.productId, st.asin,
                                                      st.keywords, CreatedAt(st.at, t)),
                              !.autoInc.optimizations = @ + 1],
                          autoInc.optimizations, <<>>)
      [] st.op = "insertHistory" ->
            IF "optimization_history" \notin tables THEN Refused(NoSuchTable("optimization_history"))
            ELSE IF SelectOptimizationById(st.optimizationId) = <<>>
            THEN Refused(MsgForeignKey)
            ELSE Answered([Store EXCEPT
                              !.history = InsertHistoryRow(st.asin, st.optimizationId,
                                                           st.type, CreatedAt(st.at, t))],
                          0, <<>>)
      [] st.op = "upsertKeyword" ->
            IF "keyword_tracking" \notin tables THEN Refused(NoSuchTable("keyword_tracking"))
            ELSE Answered([Store EXCEPT
                              !.keywordTracking = UpsertKeyword(st.asin, st.keyword)],
                          0, <<>>)
      [] st.op = "selectOptimization" ->
            IF "optimizations" \notin tables THEN Refused(NoSuchTable("optimizations"))
            ELSE Answered(Store, 0, SelectOptimizationById(st.id))
      [] st.op = "selectOptimizations" ->
            IF "optimizations" \notin tables THEN Refused(NoSuchTable("optimizations"))
            ELSE Answered(Store, 0, optimizations)
      [] st.op = "updateKeywords" ->
            IF "optimizations" \notin tables THEN Refused(NoSuchTable("optimizations"))
            ELSE Answered([Store EXCEPT !.optimizations = UpdateKeywords(st.id, st.keywords)],
                          0, <<>>)

\* the statements of the routes and the scripts
UpsertProductStatement(asin, titleLen, rating) ==
    [op |-> "upsertProduct", asin |-> asin, titleLen |-> titleLen, rating |-> rating]
InsertOptimizationStatement(productId, asin, kw, at) ==
    [op |-> "insertOptimization", productId |-> productId, asin |-> asin,
     keywords |-> kw, at |-> at]
InsertHistoryStatement(asin, optId, type, at) ==
    [op |-> "insertHistory", asin |-> asin, optimizationId |-> optId, type |-> type,
     at |-> at]
UpsertKeywordStatement(asin, keyword) ==
    [op |-> "upsertKeyword", asin |-> asin, keyword |-> keyword]

\* messages with which a store statement rejects
MsgTooManyConnections == <<"T", "o", "o", " ", "m", "a", "n", "y", " ", "c", "o", "n", "n", "e", "c", "t", "i", "o", "n", "s">>
MsgConnRefused == <<"c", "o", "n", "n", "e", "c", "t", " ", "E", "C", "O", "N", "N", "R", "E", "F", "U", "S", "E", "D">>
StoreMessages == {MsgTooManyConnections, MsgConnRefused}

(***************************************************************************)
(* The messages of the errors the scraper throws, and what the catch block *)
(* of GET /api/products/:asin makes of a message.                          *)
(***************************************************************************)

ErrInvalidAsin == <<"I", "n", "v", "a", "l", "i", "d", " ", "A", "S", "I", "N", " ", "f", "o", "r", "m", "a", "t", ".", " ", "A", "S", "I", "N", " ", "m", "u", "s", "t", " ", "b", "e", " ", "a", " ", "1", "0", "-", "c", "h", "a", "r", "a", "c", "t", "e", "r", " ", "s", "t", "r", "i", "n", "g", ".">>
ErrProductNotFound == <<"P", "r", "o", "d", "u", "c", "t", " ", "n", "o", "t", " ", "f", "o", "u", "n", "d", ".", " ", "P", "l", "e", "a", "s", "e", " ", "c", "h", "e", "c", "k", " ", "t", "h", "e", " ", "A", "S", "I", "N", ".">>
ErrStatusPrefix == <<"A", "m", "a", "z", "o", "n", " ", "r", "e", "t", "u", "r", "n", "e", "d", " ", "s", "t", "a", "t", "u", "s", " ">>
ErrNoTitle == <<"C", "o", "u", "l", "d", " ", "n", "o", "t", " ", "e", "x", "t", "r", "a", "c", "t", " ", "p", "r", "o", "d", "u", "c", "t", " ", "t", "i", "t", "l", "e", ".", " ", "T", "h", "e", " ", "p", "r", "o", "d", "u", "c", "t", " ", "p", "a", "g", "e", " ", "m", "a", "y", " ", "h", "a", "v", "e", " ", "a", "n", " ", "u", "n", "u", "s", "u", "a", "l", " ", "f", "o", "r", "m", "a", "t", " ", "o", "r", " ", "b", "e", " ", "r", "e", "s", "t", "r", "i", "c", "t", "e", "d", ".">>
ErrNetwork == <<"N", "e", "t", "w", "o", "r", "k", " ", "c", "o", "n", "n", "e", "c", "t", "i", "o", "n", " ", "f", "a", "i", "l", "e", "d", ".", " ", "P", "l", "e", "a", "s", "e", " ", "c", "h", "e", "c", "k", " ", "y", "o", "u", "r", " ", "i", "n", "t", "e", "r", "n", "e", "t", " ", "c", "o", "n", "n", "e", "c", "t", "i", "o", "n", ".">>
ErrTimeout == <<"R", "e", "q", "u", "e", "s", "t", " ", "t", "i", "m", "e", "o", "u", "t", ".", " ", "A", "m", "a", "z", "o", "n", " ", "m", "a", "y", " ", "b", "e", " ", "t", "e", "m", "p", "o", "r", "a", "r", "i", "l", "y", " ", "u", "n", "a", "v", "a", "i", "l", "a", "b", "l", "e", ".">>
\* what the catch block of GET /:asin looks for in the message
InvalidAsinToken == <<"I", "n", "v", "a", "l", "i", "d", " ", "A", "S", "I", "N">>
NotFoundToken == <<"n", "o", "t", " ", "f", "o", "u", "n", "d">>

\* the status the catch block of GET /:asin gives an error message
FetchErrorStatus(error) ==
    IF includes(error, InvalidAsinToken) THEN 400
    ELSE IF includes(error, NotFoundToken) THEN 404
    ELSE 500

(***************************************************************************)
(* What the engine's calls return, and what its callers do with it.        *)
(***************************************************************************)

K1 == <<"k", "1">>
K2 == <<"k", "2">>
\* the keyword lists generateKeywords may come back with
KeywordLists == {<<>>, <<K1, K2>>}

\* the prefixes the engine puts before the message of a failed call
TitlePrefix == <<"T", "i", "t", "l", "e", " ", "o", "p", "t", "i", "m", "i", "z", "a", "t", "i", "o", "n", " ", "f", "a", "i", "l", "e", "d", ":", " ">>
BulletPrefix == <<"B", "u", "l", "l", "e", "t", " ", "p", "o", "i", "n", "t", "s", " ", "o", "p", "t", "i", "m", "i", "z", "a", "t", "i", "o", "n", " ", "f", "a", "i", "l", "e", "d", ":", " ">>
DescriptionPrefix == <<"D", "e", "s", "c", "r", "i", "p", "t", "i", "o", "n", " ", "o", "p", "t", "i", "m", "i", "z", "a", "t", "i", "o", "n", " ", "f", "a", "i", "l", "e", "d", ":", " ">>
KeywordPrefix == <<"K", "e", "y", "w", "o", "r", "d", " ", "g", "e", "n", "e", "r", "a", "t", "i", "o", "n", " ", "f", "a", "i", "l", "e", "d", ":", " ">>
ProductPrefix == <<"A", "I", " ", "o", "p", "t", "i", "m", "i", "z", "a", "t", "i", "o", "n", " ", "f", "a", "i", "l", "e", "d", ":", " ">>
\* what the catch block of POST /:asin looks for in the message
ApiToken == <<"A", "P", "I">>

\* messages with which model.generateContent rejects
MsgApiKey == <<"A", "P", "I", " ", "k", "e", "y", " ", "n", "o", "t", " ", "v", "a", "l", "i", "d">>
MsgFetchFailed == <<"f", "e", "t", "c", "h", " ", "f", "a", "i", "l", "e", "d">>
ServiceMessages == {MsgApiKey, MsgFetchFailed}

CallPrefix(k) ==
    CASE k = 1 -> TitlePrefix
      [] k = 2 -> BulletPrefix
      [] k = 3 -> DescriptionPrefix
      [] OTHER -> KeywordPrefix

\* the message of the error optimizeProduct throws when call k rejected with msg
optimizeProductError(k, msg) == ProductPrefix \o CallPrefix(k) \o msg

\* the status the catch block of POST /:asin gives an error message
OptimizeErrorStatus(message) == IF includes(message, ApiToken) THEN 503 ELSE 500

\* the generations that succeeded, in order
Successful(q) == LET Ok(g) == g.ok IN SelectSeq(q.gens, Ok)

\* POST /:asin after optimizer.optimizeProduct resolved: the score is
\* computed and the insert is issued
OptimizeGenerated(q) ==
    [q EXCEPT !.pc = "insertOptimization", !.cur = 1, !.queries = @ + 1,
              !.gens = <<[asin |-> q.asins[1], productId |-> q.found[1].id,
                          ok |-> TRUE, keywords |-> q.keywords]>>]

\* a slip that takes what the calls that did succeed returned and persists it
OptimizeGenerationFailedPersists(q, k, msg) ==
    [q EXCEPT !.pc = "insertOptimization", !.cur = 1, !.queries = @ + 1,
              !.failedCall = k,
              !.gens = <<[asin |-> q.asins[1], productId |-> q.found[1].id,
                          ok |-> TRUE, keywords |-> <<>>]>>]

\* POST /:asin after one of the four calls rejected, so that Promise.all and
\* optimizeProduct rejected: the catch block answers 503 when the message
\* includes 'API', else 500
OptimizeGenerationFailed(q, k, msg) ==
    Respond([q EXCEPT !.failedAt = "generate", !.failedCall = k],
            OptimizeErrorStatus(optimizeProductError(k, msg)), "", 0)

\* POST /batch after optimizeMultipleProducts returned: the first generation
\* to persist, or the response when none succeeded
BatchPersistFrom(q) ==
    IF Len(Successful(q)) = 0
    THEN Respond(q, 200, "", 0)
    ELSE [q EXCEPT !.pc = "insertOptimization", !.cur = 1, !.queries = @ + 1]

\* the callers that run the loop of optimizeMultipleProducts
LoopKinds == {"optimizeMultipleProducts", "batch"}

\* results.push(result) or errors.push(errorResult), as POST /batch reads it
Recorded(q, ok) ==
    IF q.kind # "batch" THEN q
    ELSE [q EXCEPT !.gens = Append(@, [asin |-> q.found[q.batch.i].asin,
                                       productId |-> q.found[q.batch.i].id,
                                       ok |-> ok,
                                       keywords |-> IF ok THEN q.keywords ELSE <<>>])]

\* optimizeMultipleProducts returns to its caller
Returned(s) ==
    IF s.req.kind = "batch" THEN BatchPersistFrom(s.req)
    ELSE [s.req EXCEPT !.pc = "done", !.data = BatchReturn(s.req.batch, s.eng.count)]

(***************************************************************************)
(* The loop of optimizeMultipleProducts after products[i] succeeded:       *)
(* push the result, then wait delayBetweenBatches unless it was the last.  *)
(***************************************************************************)
OnJobResolved(s, t) ==
    LET b == s.req.batch
        b1 == [b EXCEPT !.results = Append(@, b.i), !.ended = t, !.endedOk = TRUE]
        q1 == [Recorded(s.req, TRUE) EXCEPT !.calls = NoCalls]
    IN IF b.i < b.n
       THEN [s EXCEPT !.req = [q1 EXCEPT !.batch = [b1 EXCEPT !.pc = "delay",
                                    !.delayUntil = t + delayBetweenBatches]]]
       ELSE [s EXCEPT !.req = Returned([s EXCEPT !.req =
                                    [q1 EXCEPT !.batch = [b1 EXCEPT !.pc = "done"]]])]

\* the loop without its try/catch: the first failing record ends the whole call
OnJobRejectedAbort(s, t) ==
    [s EXCEPT !.req = [s.req EXCEPT !.pc = "done",
                                    !.batch = [@ EXCEPT !.ended = t, !.endedOk = FALSE,
                                                        !.pc = "threw"]]]

(***************************************************************************)
(* The loop after optimizeProduct(products[i]) threw: the catch block      *)
(* pushes the error and the for loop goes on at once with products[i+1].   *)
(***************************************************************************)
OnJobRejected(s, t) ==
    LET b == s.req.batch
        b1 == [b EXCEPT !.errors = Append(@, b.i), !.ended = t, !.endedOk = FALSE]
        s1 == [s EXCEPT !.req = [Recorded(s.req, FALSE) EXCEPT !.batch = b1]]
    IN IF b.i < b.n
       THEN StartJob(s1, b.i + 1, t)
       ELSE [s1 EXCEPT !.req = Returned([s1 EXCEPT !.req.batch.pc = "done"])]

\* generateContent of call k resolved at t; Promise.all resolves with the
\* last, and the caller goes on
Resolved(s, k, kw, t) ==
    LET s1 == [s EXCEPT !.req.calls[k].st = "ok",
                        !.req.keywords = IF k = 4 THEN kw ELSE @]
    IN IF ~AllOk(s1.req.calls) THEN s1
       ELSE IF s1.req.kind \in LoopKinds THEN OnJobResolved(s1, t)
       ELSE IF s1.req.kind = "single"
       THEN [s1 EXCEPT !.req = OptimizeGenerated([s1.req EXCEPT !.calls = NoCalls])]
       ELSE [s1 EXCEPT !.req = [s1.req EXCEPT !.pc = "done", !.calls = NoCalls]]

\* generateContent of call k rejected at t; Promise.all rejects with the
\* first, and the caller's catch block runs
Rejected(s, k, msg, t) ==
    LET s1 == Abandon(s) IN
    IF s1.req.kind \in LoopKinds THEN OnJobRejected(s1, t)
    ELSE IF s1.req.kind = "single"
    THEN [s1 EXCEPT !.req = OptimizeGenerationFailed(s1.req, k, msg)]
    ELSE [s1 EXCEPT !.req = [s1.req EXCEPT !.pc = "done", !.failedAt = "generate",
                                           !.failedCall = k]]

(***************************************************************************)
(* The steps of the engine, whoever called it.                             *)
(***************************************************************************)

IdleEngine ==
    /\ lastRequestTime = 0
    /\ requestCount = 0
    /\ lastDispatch = -1
    /\ minDispatchGap = -1
    /\ stragglers = <<>>

EmptyStore ==
    /\ tables = AllTables
    /\ autoInc = [products |-> 1, optimizations |-> 1]
    /\ products = <<>>
    /\ optimizations = <<>>
    /\ history = <<>>
    /\ keywordTracking = {}

InitEngine ==
    /\ now = StartTime
    /\ IdleEngine
    /\ EmptyStore
    /\ reqs = <<>>
    /\ faults = 0

\* the times at which the pending setTimeout callbacks are due
Deadlines ==
    UNION {{reqs[r].calls[k].wakeAt : k \in {j \in Kinds : reqs[r].calls[j].st = "waiting"}} :
              r \in 1..Len(reqs)}
        \cup {stragglers[j] : j \in 1..Len(stragglers)}
        \cup {reqs[r].batch.delayUntil : r \in {x \in 1..Len(reqs) : reqs[x].batch.pc = "delay"}}
        \cup {reqs[r].wakeAt : r \in {x \in 1..Len(reqs) : reqs[x].pc = "delay"}}

\* the clock may go to t: the event loop is idle between the steps modelled
\* here, so a timer fires when it is due and the clock does not run past a
\* pending deadline
MayAdvanceTo(t) ==
    /\ t > now
    /\ \A dl \in Deadlines : t <= dl

\* time passes, to an instant at which a call is placed or a timer is due
TickEngine ==
    /\ \E t \in EngineInstants \cup Deadlines :
          /\ t <= StartTime + EngineHorizon
          /\ MayAdvanceTo(t)
          /\ now' = t
    /\ UNCHANGED <<engineVars, storeVars, optVars>>

\* the records a caller hands to the engine, or is about to
Load(q) ==
    IF q.batch.n > 0 THEN q.batch.n
    ELSE IF q.pc = "selectProducts" THEN Len(q.asins)
    ELSE IF q.pc = "done" /\ q.genCalls = 0 THEN 0
    ELSE IF q.kind \in {"optimizeProduct", "call", "single"} THEN 1
    ELSE 0

RECURSIVE RecordsOf(_)
\* the records handed to the engine so far
RecordsOf(qs) ==
    IF qs = <<>> THEN 0 ELSE Load(Head(qs)) + RecordsOf(Tail(qs))

ScriptKinds == {"initializeDatabase", "dropTables", "insertTestData", "debugKeywords"}

\* the requests, calls and scripts in flight
Running == {r \in 1..Len(reqs) : InFlight(reqs[r])}
ScriptsRunning == {r \in Running : reqs[r].kind \in ScriptKinds}

\* a further request or call fits the bounds
Arrives ==
    /\ Len(reqs) < MaxReqs
    /\ Cardinality(ScriptsRunning) <= MaxBeside

\* a further caller with n records fits the bounds
Fits(n) ==
    /\ Arrives
    /\ IF RecordsOf(reqs) = 0 THEN n <= MaxBatch ELSE RecordsOf(reqs) + n <= MaxShared

\* optimizeMultipleProducts(products) is called with n records
BatchCall ==
    /\ \E n \in 0..MaxBatch :
          /\ Fits(n)
          /\ LET q == [NewRequest("optimizeMultipleProducts", <<>>) EXCEPT
                           !.pc = "generating", !.batch.n = n]
                 s == [eng |-> Engine, req |-> q]
                 s1 == IF n = 0
                       THEN [s EXCEPT !.req = Returned([s EXCEPT !.req.batch.pc = "done"])]
                       ELSE StartJob(s, 1, now)
             IN SetEngine(s1.eng) /\ reqs' = Append(reqs, s1.req)
    /\ UNCHANGED <<now, storeVars, faults>>

\* optimizeProduct(productData) is called from outside the loop
ProductCall ==
    /\ Fits(1)
    /\ LET q == [NewRequest("optimizeProduct", <<>>) EXCEPT !.pc = "generating"]
           s == optimizeProduct([eng |-> Engine, req |-> q], now)
       IN SetEngine(s.eng) /\ reqs' = Append(reqs, s.req)
    /\ UNCHANGED <<now, storeVars, faults>>

\* optimizeTitle, optimizeBulletPoints, optimizeDescription or
\* generateKeywords is called on its own
SingleCall ==
    /\ Fits(1)
    /\ \E k \in Kinds :
          LET q == [NewRequest("call", <<>>) EXCEPT !.pc = "generating", !.cur = k]
              s == GateEnter([eng |-> Engine, req |-> q], k, now)
          IN SetEngine(s.eng) /\ reqs' = Append(reqs, s.req)
    /\ UNCHANGED <<now, storeVars, faults>>

RECURSIVE WakeRun(_, _, _)
\* the gated calls of a record from call k on whose timers are due at t pass
\* the gate in the order in which they were armed
WakeRun(s, k, t) ==
    IF k > 4 THEN s
    ELSE IF s.req.calls[k].st = "waiting" /\ t >= s.req.calls[k].wakeAt
    THEN WakeRun([eng |-> GateStamp(s.eng, t),
                  req |-> [s.req EXCEPT !.calls[k] = [st |-> "inflight", wakeAt |-> 0],
                                        !.genCalls = @ + 1]],
                 k + 1, t)
    ELSE WakeRun(s, k + 1, t)

RECURSIVE StampRun(_, _, _)
\* n calls pass the gate at t, one after the other
StampRun(e, n, t) == IF n = 0 THEN e ELSE StampRun(GateStamp(e, t), n - 1, t)

(***************************************************************************)
(* The setTimeout callbacks of rateLimitCheck.  The timers optimizeProduct *)
(* arms in one turn have one delay: they run in one pass of the timers     *)
(* phase, in the order armed, and the rest of each rateLimitCheck (stamp,  *)
(* count, generateContent) runs as a microtask before any I/O callback.    *)
(***************************************************************************)
GateWake ==
    /\ \E r \in 1..Len(reqs) :
          /\ \E k \in Kinds : reqs[r].calls[k].st = "waiting" /\ now >= reqs[r].calls[k].wakeAt
          /\ SetBoth(r, WakeRun(On(r), 1, now))
    /\ UNCHANGED <<now, storeVars, faults>>

\* the same timers, of calls whose record was already rejected
StragglerWake ==
    /\ \E j \in 1..Len(stragglers) : now >= stragglers[j]
    /\ LET Due(w) == now >= w
           Later(w) == now < w
       IN SetEngine([StampRun(Engine, Len(SelectSeq(stragglers, Due)), now) EXCEPT
                         !.strag = SelectSeq(stragglers, Later)])
    /\ UNCHANGED <<now, storeVars, optVars>>

\* generateContent of call k resolves
GenResolve ==
    /\ \E r \in 1..Len(reqs), k \in Kinds :
          /\ reqs[r].calls[k].st = "inflight"
          /\ \E kw \in (IF k = 4 THEN KeywordLists ELSE {<<>>}) :
                SetBoth(r, Resolved(On(r), k, kw, now))
    /\ UNCHANGED <<now, storeVars, faults>>

\* generateContent of call k rejects
GenReject ==
    /\ \E r \in 1..Len(reqs), k \in Kinds, msg \in ServiceMessages :
          /\ reqs[r].calls[k].st = "inflight"
          /\ SetBoth(r, Rejected(On(r), k, msg, now))
    /\ UNCHANGED <<now, storeVars, faults>>

\* the setTimeout between two records fires
BatchDelayWake ==
    /\ \E r \in 1..Len(reqs) :
          /\ reqs[r].batch.pc = "delay"
          /\ now >= reqs[r].batch.delayUntil
          /\ SetBoth(r, StartJob(On(r), reqs[r].batch.i + 1, now))
    /\ UNCHANGED <<now, storeVars, faults>>

NextEngine ==
    \/ TickEngine
    \/ BatchCall
    \/ ProductCall
    \/ SingleCall
    \/ GateWake
    \/ StragglerWake
    \/ GenResolve
    \/ GenReject
    \/ BatchDelayWake

SpecEngine == InitEngine /\ [][NextEngine]_vars

(***************************************************************************)
(* Properties of the engine.                                               *)
(***************************************************************************)

LoopCalls == {q \in Requests : q.kind = "optimizeMultipleProducts"}

\* C1: any two consecutive calls to model.generateContent are at least
\* minRequestInterval apart.
C1_GateSpacing ==
    minDispatchGap = -1 \/ minDispatchGap >= minRequestInterval

\* C7: optimizeMultipleProducts over n records never throws; when it returns,
\* every record is in exactly one of successful[] and failed[], in input order
\* within each list, summary.total = n and summary.successful + summary.failed
\* = n with the two counts equal to the lengths of the lists.
C7_BatchPartition ==
    \A q \in LoopCalls :
        /\ q.batch.pc # "threw"
        /\ q.pc = "done" =>
              LET ret == q.data IN
              /\ Range(ret.successful) \cup Range(ret.failed) = 1..q.batch.n
              /\ Range(ret.successful) \cap Range(ret.failed) = {}
              /\ \A i, j \in 1..Len(ret.successful) : i < j => ret.successful[i] < ret.successful[j]
              /\ \A i, j \in 1..Len(ret.failed) : i < j => ret.failed[i] < ret.failed[j]
              /\ ret.summary.total = q.batch.n
              /\ ret.summary.successful = Len(ret.successful)
              /\ ret.summary.failed = Len(ret.failed)
              /\ ret.summary.successful + ret.summary.failed = q.batch.n

\* three records of which the second fails: two successful, one failed
C7_Witness ==
    \E q \in LoopCalls :
        /\ q.pc = "done"
        /\ q.batch.n = 3
        /\ q.data.failed = <<2>>
        /\ q.data.successful = <<1, 3>>

\* C8: records are optimized one at a time in input order, and between the end
\* of a record, succeeded or failed, and the start of the next one at least
\* delayBetweenBatches elapses.
C8_BatchSpacing ==
    \A q \in LoopCalls :
        /\ q.batch.pc \in {"run", "delay", "done"} =>
              Range(q.batch.results) \cup Range(q.batch.errors) =
                  1..(IF q.batch.pc = "run" THEN q.batch.i - 1 ELSE q.batch.i)
        /\ q.batch.gap = -1 \/ q.batch.gap >= delayBetweenBatches

(***************************************************************************)
(* The optimize routes: POST /:asin and POST /batch.  A request advances   *)
(* from one await to the next; pc names the statement it is waiting for.   *)
(***************************************************************************)

\* what the callers send as :asin
SingleInputs == {AsinA, AsinC, LowerA}

\* what the callers send as body.asins
BatchInputs ==
    {[isArray |-> FALSE, items |-> <<>>],
     [isArray |-> TRUE, items |-> <<>>],
     [isArray |-> TRUE, items |-> <<AsinA, AsinB>>],
     [isArray |-> TRUE, items |-> <<AsinA, ShortA>>],
     [isArray |-> TRUE, items |-> <<AsinC>>],
     [isArray |-> TRUE, items |-> <<AsinA, AsinB, AsinC, AsinA, AsinB, AsinC>>]}

\* the awaits of a store statement
StorePcs == {"selectProduct", "selectRecent", "selectProducts",
             "insertOptimization", "insertHistory", "insertKeyword", "statement",
             "upsert", "selectOptimization", "insertFeedback",
             "count", "select", "actions"}

\* executeQuery threw with the message: the catch block of the route answers,
\* a script ends
Fail(q, message) ==
    IF q.kind \in ScriptKinds THEN [q EXCEPT !.pc = "done", !.failedAt = "statement"]
    ELSE Respond([q EXCEPT !.failedAt = q.pc,
                           !.pending = IF @ > 0 THEN @ - 1 ELSE @],
                 IF q.kind = "single" THEN OptimizeErrorStatus(message)
                 ELSE IF q.kind = "fetch" THEN FetchErrorStatus(message)
                 ELSE 500, "", 0)

(***************************************************************************)
(* POST /:asin                                                             *)
(***************************************************************************)

\* the handler starts and issues the product query
OptimizeRequest ==
    /\ Fits(1)
    /\ \E asin \in SingleInputs :
          reqs' = Append(reqs, [NewRequest("single", <<asin>>) EXCEPT
                                    !.pc = "selectProduct", !.queries = 1])
    /\ UNCHANGED <<now, engineVars, storeVars, faults>>

\* a slip that goes on to the recent-optimization query without looking at
\* the rows
OptimizeSelectProductUnchecked ==
    /\ \E r \in 1..Len(reqs) :
          LET q == reqs[r]
              res == Execute([op |-> "selectProduct", asin |-> q.asins[1]], now, FALSE)
          IN /\ q.kind = "single" /\ q.pc = "selectProduct"
             /\ reqs' = [reqs EXCEPT ![r] =
                   IF ~res.ok THEN Fail(q, res.message)
                   ELSE [q EXCEPT !.pc = "selectRecent", !.found = res.rows,
                                  !.queries = @ + 1]]
    /\ UNCHANGED <<now, engineVars, storeVars, faults>>

\* the product query returns: 404, or the recent-optimization query is issued
OptimizeSelectProduct ==
    /\ \E r \in 1..Len(reqs) :
          LET q == reqs[r]
              res == Execute([op |-> "selectProduct", asin |-> q.asins[1]], now, FALSE)
          IN /\ q.kind = "single" /\ q.pc = "selectProduct"
             /\ reqs' = [reqs EXCEPT ![r] =
                   IF ~res.ok THEN Fail(q, res.message)
                   ELSE IF Len(res.rows) = 0 THEN Respond(q, 404, "", 0)
                   ELSE [q EXCEPT !.pc = "selectRecent", !.found = res.rows,
                                  !.queries = @ + 1]]
    /\ UNCHANGED <<now, engineVars, storeVars, faults>>

\* the recent-optimization query returns: the cached answer, or
\* optimizer.optimizeProduct(productData) is called and runs to its await
OptimizeSelectRecent ==
    /\ \E r \in 1..Len(reqs) :
          LET q == reqs[r]
              recent == SelectRecentOptimization(q.asins[1], now)
              q1 == [q EXCEPT !.gateAt = now, !.gateNewest = NewestCreated(q.asins[1])]
          IN /\ q.kind = "single" /\ q.pc = "selectRecent"
             /\ IF "optimizations" \notin tables
                THEN /\ reqs' = [reqs EXCEPT ![r] = Fail(q, NoSuchTable("optimizations"))]
                     /\ UNCHANGED engineVars
                ELSE IF recent # {}
                THEN /\ \E opt \in recent :
                           reqs' = [reqs EXCEPT ![r] =
                                       Respond([q1 EXCEPT !.data = opt], 200, "cached", opt.id)]
                     /\ UNCHANGED engineVars
                ELSE SetBoth(r, optimizeProduct([eng |-> Engine,
                                                 req |-> [q1 EXCEPT !.pc = "generating"]], now))
    /\ UNCHANGED <<now, storeVars, faults>>

(***************************************************************************)
(* POST /batch                                                             *)
(***************************************************************************)

\* the two checks of POST /batch: a non-empty array of at most five
BatchValid(in) ==
    /\ in.isArray /\ Len(in.items) # 0
    /\ Len(in.items) <= MaxOptimizeBatch

\* the handler starts: 400 for no array, an empty one or more than five,
\* else the products query is issued
BatchRequest ==
    /\ \E in \in BatchInputs :
          LET q == NewRequest("batch", in.items) IN
          /\ Fits(IF BatchValid(in) THEN Len(in.items) ELSE 0)
          /\ reqs' = Append(reqs,
                IF ~BatchValid(in) THEN Respond(q, 400, "", 0)
                ELSE [q EXCEPT !.pc = "selectProducts", !.queries = 1])
    /\ UNCHANGED <<now, engineVars, storeVars, faults>>

\* the products query returns: 404, or optimizeMultipleProducts is called and
\* runs to the await of its first record
BatchSelectProducts ==
    /\ \E r \in 1..Len(reqs) :
          LET q == reqs[r] IN
          /\ q.kind = "batch" /\ q.pc = "selectProducts"
          /\ IF "products" \notin tables
             THEN /\ reqs' = [reqs EXCEPT ![r] = Fail(q, NoSuchTable("products"))]
                  /\ UNCHANGED engineVars
             ELSE \E rows \in SelectProductsIn(q.asins) :
                     IF Len(rows) = 0
                     THEN /\ reqs' = [reqs EXCEPT ![r] = Respond(q, 404, "", 0)]
                          /\ UNCHANGED engineVars
                     ELSE SetBoth(r, StartJob([eng |-> Engine,
                                               req |-> [q EXCEPT !.pc = "generating",
                                                                 !.found = rows,
                                                                 !.batch.n = Len(rows)]],
                                              1, now))
    /\ UNCHANGED <<now, storeVars, faults>>

(***************************************************************************)
(* Persistence of a generation, the same three statements on both routes.  *)
(***************************************************************************)

\* the response after the last keyword of generation q.cur
AfterKeywords(q) ==
    IF q.kind = "single" THEN Respond(q, 200, "fresh", q.optId)
    ELSE IF q.cur < Len(Successful(q))
    THEN [q EXCEPT !.pc = "insertOptimization", !.cur = @ + 1, !.queries = @ + 1]
    ELSE Respond(q, 200, "", 0)

\* the loop over suggestedKeywords, entered with the keywords left
KeywordLoop(q, left) ==
    IF Len(left) = 0 THEN AfterKeywords(q)
    ELSE [q EXCEPT !.pc = "insertKeyword", !.kwLeft = left, !.queries = @ + 1]

\* INSERT INTO optimizations is answered; the history insert is issued
InsertOptimization ==
    /\ \E r \in 1..Len(reqs), burn \in BOOLEAN :
          LET q == reqs[r]
              g == Successful(q)[q.cur]
              res == Execute(InsertOptimizationStatement(g.productId, g.asin,
                                 stringify(g.keywords), DefaultTime), now, burn)
          IN /\ q.kind \in {"single", "batch"} /\ q.pc = "insertOptimization"
             /\ SetStore(res.store)
             /\ reqs' = [reqs EXCEPT ![r] =
                   IF ~res.ok THEN Fail(q, res.message)
                   ELSE [q EXCEPT !.pc = "insertHistory", !.optId = res.insertId,
                                  !.stored = Append(@, res.insertId),
                                  !.writes = @ + 1, !.queries = @ + 1]]
    /\ UNCHANGED <<now, engineVars, faults>>

\* INSERT INTO optimization_history is answered; the keyword loop starts
InsertHistory ==
    /\ \E r \in 1..Len(reqs) :
          LET q == reqs[r]
              g == Successful(q)[q.cur]
              res == Execute(InsertHistoryStatement(g.asin, q.optId, "created", DefaultTime),
                             now, FALSE)
          IN /\ q.kind \in {"single", "batch"} /\ q.pc = "insertHistory"
             /\ SetStore(res.store)
             /\ reqs' = [reqs EXCEPT ![r] =
                   IF ~res.ok THEN Fail(q, res.message)
                   ELSE KeywordLoop([q EXCEPT !.writes = @ + 1,
                                              !.logged = Append(@, q.optId)],
                                    g.keywords)]
    /\ UNCHANGED <<now, engineVars, faults>>

\* one INSERT INTO keyword_tracking is answered; the loop goes on
InsertKeyword ==
    /\ \E r \in 1..Len(reqs) :
          LET q == reqs[r]
              g == Successful(q)[q.cur]
              res == Execute(UpsertKeywordStatement(g.asin, Head(q.kwLeft)), now, FALSE)
          IN /\ q.kind \in {"single", "batch"} /\ q.pc = "insertKeyword"
             /\ SetStore(res.store)
             /\ reqs' = [reqs EXCEPT ![r] =
                   IF ~res.ok THEN Fail(q, res.message)
                   ELSE KeywordLoop([q EXCEPT !.writes = @ + 1], Tail(q.kwLeft))]
    /\ UNCHANGED <<now, engineVars, faults>>

\* executeQuery throws for a reason outside the store's contents (the
\* connection is lost, the pool is exhausted)
StoreStatementFails ==
    /\ faults < MaxFaults
    /\ \E r \in 1..Len(reqs) :
          LET q == reqs[r] IN
          /\ q.pc \in StorePcs
          /\ \E msg \in StoreMessages :
                reqs' = [reqs EXCEPT ![r] = Fail(q, msg)]
    /\ faults' = faults + 1
    /\ UNCHANGED <<now, engineVars, storeVars>>

(***************************************************************************)
(* The scripts that write to the store next to the server: database-init   *)
(* (createDatabase, then seedTestData), dropTables, insertTestData and     *)
(* debug-keywords.  Each awaits its statements one after the other; cur is *)
(* the statement awaited and data holds the locals.                        *)
(***************************************************************************)

AsinD == <<"B", "0", "B", "S", "F", "Q", "V", "D", "W", "Z">>
AsinE == <<"B", "0", "9", "G", "9", "F", "P", "H", "Y", "6">>

\* testProducts and testOptimizations of insertTestData: the identifier, the
\* length of the title, the rating and the suggestedKeywords
TestProducts ==
    <<[asin |-> AsinA, titleLen |-> 56, rating |-> NumberValue(470),
       keywords |-> <<<<"s", "m", "a", "r", "t", " ", "s", "p", "e", "a", "k", "e", "r">>, <<"a", "l", "e", "x", "a", " ", "d", "e", "v", "i", "c", "e">>, <<"v", "o", "i", "c", "e", " ", "c", "o", "n", "t", "r", "o", "l">>,
                      <<"s", "m", "a", "r", "t", " ", "h", "o", "m", "e">>, <<"a", "m", "a", "z", "o", "n", " ", "e", "c", "h", "o">>>>],
      [asin |-> AsinD, titleLen |-> 72, rating |-> NumberValue(440),
       keywords |-> <<<<"w", "i", "r", "e", "l", "e", "s", "s", " ", "e", "a", "r", "b", "u", "d", "s">>, <<"n", "o", "i", "s", "e", " ", "c", "a", "n", "c", "e", "l", "l", "i", "n", "g">>, <<"s", "p", "a", "t", "i", "a", "l", " ", "a", "u", "d", "i", "o">>,
                      <<"a", "p", "p", "l", "e", " ", "a", "i", "r", "p", "o", "d", "s">>, <<"b", "l", "u", "e", "t", "o", "o", "t", "h", " ", "h", "e", "a", "d", "p", "h", "o", "n", "e", "s">>>>],
      [asin |-> AsinE, titleLen |-> 54, rating |-> NumberValue(450),
       keywords |-> <<<<"4", "k", " ", "s", "t", "r", "e", "a", "m", "i", "n", "g", " ", "d", "e", "v", "i", "c", "e">>, <<"f", "i", "r", "e", " ", "t", "v", " ", "s", "t", "i", "c", "k">>, <<"w", "i", "-", "f", "i", " ", "6", "e">>,
                      <<"d", "o", "l", "b", "y", " ", "v", "i", "s", "i", "o", "n">>, <<"a", "l", "e", "x", "a", " ", "r", "e", "m", "o", "t", "e">>>>]>>

\* the keywords of the historical optimizations
HistoricalKeywords == <<<<"h", "i", "s", "t", "o", "r", "i", "c", "a", "l">>, <<"k", "e", "y", "w", "o", "r", "d">>, <<"t", "e", "s", "t">>>>

\* the tables in the order createDatabase makes them
CreateOrder == <<"products", "optimizations", "optimization_history", "keyword_tracking">>
\* and in the order dropTables drops them
DropOrder == <<"keyword_tracking", "optimization_history", "optimizations", "products">>

NoRow == [id |-> 0, raw |-> JsonNull]
ScriptLocals == [ids |-> <<>>, insertId |-> 0, at |-> 0, rows |-> {}, next |-> NoRow]

\* statement c of initializeDatabase: the four CREATE TABLE IF NOT EXISTS of
\* createDatabase, then the INSERT IGNORE of seedTestData
seedTestData(c) ==
    IF c <= 4 THEN [op |-> "createTable", table |-> CreateOrder[c]]
    ELSE [op |-> "insertIgnoreProduct", asin |-> AsinA, titleLen |-> 56,
          rating |-> NumberValue(470)]

\* statement c of dropTables
dropTables(c) ==
    IF c = 1 \/ c = 6 THEN [op |-> "set"]
    ELSE [op |-> "dropTable", table |-> DropOrder[c - 1]]

\* statement c of insertTestData, with the locals d: three upserts, three
\* SELECT id, per optimization the insert, its history row and five
\* keywords, then per historical date the insert and its history row
insertTestData(c, d) ==
    IF c <= 3
    THEN UpsertProductStatement(TestProducts[c].asin, TestProducts[c].titleLen,
                                TestProducts[c].rating)
    ELSE IF c <= 6 THEN [op |-> "selectProduct", asin |-> TestProducts[c - 3].asin]
    ELSE IF c <= 27
    THEN LET o == (c - 7) \div 7 + 1
             s == (c - 7) % 7
             p == TestProducts[o]
         IN IF s = 0
            THEN InsertOptimizationStatement(d.ids[o], p.asin, stringify(p.keywords),
                                             DefaultTime)
            ELSE IF s = 1
            THEN InsertHistoryStatement(p.asin, d.insertId, "created", DefaultTime)
            ELSE UpsertKeywordStatement(p.asin, p.keywords[s - 1])
    ELSE LET i == (c - 28) \div 2
             j == (i % Len(TestProducts)) + 1
             date == d.at - 7 * (i + 1) * Day
         IN IF (c - 28) % 2 = 0
            THEN InsertOptimizationStatement(d.ids[j], TestProducts[j].asin,
                                             stringify(HistoricalKeywords), GivenTime(date))
            ELSE InsertHistoryStatement(TestProducts[j].asin, d.insertId, "created",
                                        GivenTime(date))

\* the text debug-keywords writes back for what it read from a row
fixKeywords(raw) ==
    LET keywordsString == IF Falsy(raw) THEN <<>> ELSE String(raw) IN
    IF includes(keywordsString, <<",">>)
    THEN stringify(NonEmpty(MapTrimReplace(split(keywordsString))))
    ELSE IF Len(trim(keywordsString)) > 0
    THEN stringify(<<trim(keywordsString)>>)
    ELSE stringify(<<>>)

\* statement c of debug-keywords: two SELECTs, then one UPDATE per row
debugKeywords(c, d) ==
    IF c <= 2 THEN [op |-> "selectOptimizations"]
    ELSE [op |-> "updateKeywords", id |-> d.next.id, keywords |-> fixKeywords(d.next.raw)]

\* the statement a script is waiting for
ScriptStatementOf(q) ==
    CASE q.kind = "initializeDatabase" -> seedTestData(q.cur)
      [] q.kind = "dropTables" -> dropTables(q.cur)
      [] q.kind = "insertTestData" -> insertTestData(q.cur, q.data)
      [] OTHER -> debugKeywords(q.cur, q.data)

\* what the driver hands back for suggested_keywords: the text, or on a
\* server with a native JSON type the decoded value
ReadJson(text, decoded) ==
    IF decoded /\ JsonParse(text).ok THEN JsonParse(text).val ELSE JsonString(text)

\* the script goes on to its next statement
NextStatement(q) == [q EXCEPT !.cur = @ + 1, !.queries = @ + 1]
ScriptEnds(q) == [q EXCEPT !.pc = "done"]

\* what a script does with the answer to its statement: the ways it may go on
ScriptNext(q, res, t, decoded) ==
    IF ~res.ok THEN {Fail(q, res.message)}
    ELSE IF q.kind = "initializeDatabase"
    THEN {IF q.cur = 5 THEN ScriptEnds(q) ELSE NextStatement(q)}
    ELSE IF q.kind = "dropTables"
    THEN {IF q.cur = 6 THEN ScriptEnds(q) ELSE NextStatement(q)}
    ELSE IF q.kind = "insertTestData"
    THEN IF q.cur \in 4..6
         THEN IF res.rows = <<>>
              THEN {[q EXCEPT !.pc = "done", !.failedAt = "productIds"]}
              ELSE {NextStatement([q EXCEPT !.data.ids = Append(@, res.rows[1].id)])}
         ELSE IF q.cur = 33 THEN {ScriptEnds([q EXCEPT !.data.insertId = res.insertId])}
         ELSE {NextStatement([q EXCEPT
                   !.data.insertId = IF res.insertId # 0 THEN res.insertId ELSE @,
                   !.data.at = IF q.cur = 27 THEN t ELSE @])}
    ELSE IF q.cur = 1 THEN {NextStatement(q)}
    ELSE LET left == IF q.cur = 2
                     THEN {[id |-> o.id, raw |-> ReadJson(o.keywords, decoded)] :
                              o \in Range(res.rows)}
                     ELSE q.data.rows
         IN IF left = {} THEN {ScriptEnds([q EXCEPT !.data.rows = {}])}
            ELSE {NextStatement([q EXCEPT !.data.rows = left \ {row}, !.data.next = row]) :
                     row \in left}

\* one of the scripts is started
StartScript(kinds) ==
    /\ Len(reqs) < MaxReqs
    /\ Cardinality(Running) <= MaxBeside
    /\ \E kind \in kinds :
          reqs' = Append(reqs, [NewRequest(kind, <<>>) EXCEPT
                                   !.pc = "statement", !.cur = 1, !.queries = 1,
                                   !.data = ScriptLocals])
    /\ UNCHANGED <<now, engineVars, storeVars, faults>>

\* a script is started
ScriptStart == StartScript(ScriptKinds)

\* a script that writes to the table products is started
ProductScripts == {"initializeDatabase", "dropTables", "insertTestData"}
ProductScriptStart == StartScript(ProductScripts)

\* the statement a script awaits is answered.  The rows of a SELECT without
\* ORDER BY come in no defined order: debug-keywords takes them in any.
ScriptStatement ==
    /\ \E r \in 1..Len(reqs), burn \in BOOLEAN, decoded \in BOOLEAN :
          LET q == reqs[r]
              res == Execute(ScriptStatementOf(q), now, burn)
          IN /\ q.kind \in ScriptKinds /\ q.pc = "statement"
             /\ SetStore(res.store)
             /\ \E q1 \in ScriptNext(q, res, now, decoded) :
                   reqs' = [reqs EXCEPT ![r] = q1]
    /\ UNCHANGED <<now, engineVars, faults>>

\* the clock advances to the next instant at which a timer is due
TickOptimize ==
    /\ \E t \in Deadlines :
          /\ MayAdvanceTo(t)
          /\ now' = t
    /\ UNCHANGED <<engineVars, storeVars, optVars>>

\* the products fetched before time t: two identifiers are stored, AsinC is not
StoredProducts(t) ==
    <<[id |-> 1, asin |-> AsinA, titleLen |-> 25, rating |-> -1, updatedAt |-> DbNow(t)],
      [id |-> 2, asin |-> AsinB, titleLen |-> 25, rating |-> -1, updatedAt |-> DbNow(t)]>>

InitOptimize ==
    /\ now = StartTime
    /\ IdleEngine
    /\ tables = AllTables
    /\ autoInc = [products |-> 3, optimizations |-> 1]
    /\ products = StoredProducts(StartTime)
    /\ optimizations = <<>>
    /\ history = <<>>
    /\ keywordTracking = {}
    /\ reqs = <<>>
    /\ faults = 0

NextOptimize ==
    \/ TickOptimize
    \/ OptimizeRequest
    \/ OptimizeSelectProduct
    \/ OptimizeSelectRecent
    \/ BatchRequest
    \/ BatchSelectProducts
    \/ GateWake
    \/ StragglerWake
    \/ GenResolve
    \/ GenReject
    \/ BatchDelayWake
    \/ InsertOptimization
    \/ InsertHistory
    \/ InsertKeyword
    \/ StoreStatementFails
    \/ ScriptStart
    \/ ScriptStatement

SpecOptimize == InitOptimize /\ [][NextOptimize]_vars

(***************************************************************************)
(* The optimize route an hour later.  The process starts from the state    *)
(* in which one POST /:asin for AsinA, received minRequestInterval before  *)
(* StartTime, has just been answered 'fresh': its optimization row was     *)
(* created at StartTime.                                                   *)
(***************************************************************************)

\* the clock readings at which the route is observed
RecentInstants == {StartTime + d : d \in {59 * Minute, 61 * Minute}}

\* the request that was answered
FirstOptimize ==
    [NewRequest("single", <<AsinA>>) EXCEPT
        !.pc = "done",
        !.found = <<StoredProducts(0)[1]>>,
        !.gateAt = StartTime - minRequestInterval,
        !.keywords = <<K1, K2>>,
        !.gens = <<[asin |-> AsinA, productId |-> 1, ok |-> TRUE, keywords |-> <<K1, K2>>]>>,
        !.cur = 1, !.optId = 1, !.kwLeft = <<K2>>, !.stored = <<1>>, !.logged = <<1>>,
        !.genCalls = 4, !.queries = 6, !.writes = 4,
        !.resp = [status |-> 200, source |-> "fresh", opt |-> 1]]

InitRecent ==
    /\ now = StartTime
    /\ lastRequestTime = StartTime
    /\ requestCount = 4
    /\ lastDispatch = StartTime
    /\ minDispatchGap = 0
    /\ stragglers = <<>>
    /\ tables = AllTables
    /\ autoInc = [products |-> 3, optimizations |-> 2]
    /\ products = StoredProducts(0)
    /\ optimizations = <<[id |-> 1, productId |-> 1, asin |-> AsinA,
                          keywords |-> stringify(<<K1, K2>>),
                          createdAt |-> DbNow(StartTime)]>>
    /\ history = <<[asin |-> AsinA, optimizationId |-> 1, actionType |-> "created",
                    createdAt |-> DbNow(StartTime)]>>
    /\ keywordTracking = {<<AsinA, K1>>, <<AsinA, K2>>}
    /\ reqs = <<FirstOptimize>>
    /\ faults = 0

\* the clock advances, to an instant at which a request comes or a timer is due
TickRecent ==
    /\ \E t \in RecentInstants \cup Deadlines :
          /\ MayAdvanceTo(t)
          /\ now' = t
    /\ UNCHANGED <<engineVars, storeVars, optVars>>

NextRecent ==
    \/ TickRecent
    \/ OptimizeRequest
    \/ OptimizeSelectProduct
    \/ OptimizeSelectRecent
    \/ GateWake
    \/ StragglerWake
    \/ GenResolve
    \/ GenReject
    \/ InsertOptimization
    \/ InsertHistory
    \/ InsertKeyword
    \/ StoreStatementFails
    \/ ScriptStart
    \/ ScriptStatement

SpecRecent == InitRecent /\ [][NextRecent]_vars

(***************************************************************************)
(* Properties of the optimize routes.                                      *)
(***************************************************************************)

SingleRequests == {q \in Requests : q.kind = "single"}
BatchRequests == {q \in Requests : q.kind = "batch"}

\* C2: a single optimize that finds the identifier's newest optimization
\* created less than one hour before answers 200 'cached' with a newest row,
\* makes no generative call and no store write; one that finds it older than
\* one hour, or finds none, calls the engine, never answers 'cached', and
\* answers 200 'fresh' after four generative calls when the generation and
\* its store writes complete.
C2_RecentGate ==
    \A q \in SingleRequests :
        q.gateAt # -1 =>
            /\ (q.gateNewest # -1 /\ q.gateAt - q.gateNewest < Hour) =>
                  /\ q.pc = "done"
                  /\ q.resp.status = 200 /\ q.resp.source = "cached"
                  /\ q.genCalls = 0 /\ q.writes = 0 /\ q.stored = <<>>
                  /\ q.resp.opt = q.data.id
                  /\ q.data.createdAt = q.gateNewest
                  /\ SqlEq(q.data.asin, q.asins[1])
            /\ (q.gateNewest = -1 \/ q.gateAt - q.gateNewest > Hour) =>
                  /\ q.resp.source # "cached"
                  /\ q.pc = "generating" => \E k \in Kinds : q.calls[k].st # "none"
                  /\ Completed(q) =>
                        /\ q.resp.status = 200 /\ q.resp.source = "fresh"
                        /\ q.genCalls = 4 /\ Len(q.stored) = 1

\* an optimization 59 minutes old is served from the store
C2_Witness ==
    \E q \in SingleRequests :
        /\ q.pc = "done" /\ q.resp.source = "cached"
        /\ q.gateAt - q.gateNewest = 59 * Minute

\* C4: when an optimize request is not in flight, each optimization row it
\* inserted has its 'created' history row, inserted by the same request, and
\* it inserted no 'created' row without its optimization row.
C4_CreatedLogAtomic ==
    \A q \in SingleRequests \cup BatchRequests :
        ~InFlight(q) => q.logged = q.stored

\* C5: a request that ended on a failed keyword write has stored the
\* optimization row of every generation it completed.
C5_KeywordFailureKeepsGenerations ==
    \A q \in SingleRequests \cup BatchRequests :
        (q.pc = "done" /\ q.failedAt = "insertKeyword") =>
            /\ Len(q.stored) = Len(Successful(q))

\* C6: a single optimize whose generation, optimization insert and history
\* insert succeeded answers 200 'fresh' even if a keyword write fails.
C6_KeywordFailureStillAnswers ==
    \A q \in SingleRequests :
        (q.pc = "done" /\ q.failedAt = "insertKeyword") =>
            q.resp.status = 200 /\ q.resp.source = "fresh"

\* C9: an optimize request, single or batch, carrying a token that is not
\* a valid identifier issues no store statement and no generative call and
\* is answered 400.
C9_InvalidRejected ==
    \A q \in SingleRequests \cup BatchRequests :
        (\E j \in 1..Len(q.asins) : ~isValidASIN(q.asins[j])) =>
            /\ q.queries = 0
            /\ q.genCalls = 0
            /\ q.pc = "done" /\ q.resp.status = 400

(***************************************************************************)
(* Failures of the optimize route.                                         *)
(***************************************************************************)

\* C11: a single optimize whose product query returned no row is answered
\* 404 at once, makes no generative call and writes nothing.
C11_MissingProductNotFound ==
    \A q \in SingleRequests :
        (q.pc # "selectProduct" /\ q.failedAt # "selectProduct" /\ q.found = <<>>) =>
            /\ q.pc = "done" /\ q.resp.status = 404
            /\ q.queries = 1
            /\ q.genCalls = 0 /\ q.writes = 0 /\ q.stored = <<>>
            /\ \A k \in Kinds : q.calls[k].st = "none"

\* the optimize of the identifier that is not stored was answered 404, and
\* no row of any table carries the identifier
C11_Witness ==
    \E q \in SingleRequests :
        /\ q.asins[1] = AsinC /\ Completed(q) /\ q.resp.status = 404
        /\ \A o \in Range(optimizations) : ~SqlEq(o.asin, AsinC)
        /\ \A h \in Range(history) : ~SqlEq(h.asin, AsinC)
        /\ \A k \in keywordTracking : ~SqlEq(k[1], AsinC)

\* C12: a single optimize in which one of the four generative calls
\* rejected is answered with an error (500 or 503), and has written no
\* optimization, history or keyword row.
C12_FailedCallWritesNothing ==
    \A q \in SingleRequests :
        q.failedCall # 0 =>
            /\ q.pc = "done" /\ q.failedAt = "generate"
            /\ q.resp.status \in {500, 503}
            /\ q.writes = 0 /\ q.stored = <<>> /\ q.optId = 0

\* the keyword call of a request on a stored product rejected after the
\* other three had been dispatched
C12_Witness ==
    \E q \in SingleRequests :
        /\ q.failedCall = 4 /\ q.genCalls = 4 /\ q.pc = "done"
        /\ optimizations = <<>> /\ history = <<>> /\ keywordTracking = {}

\* C13: a single optimize whose generation failed is answered 503, and one
\* that failed at a store statement is never answered 503.
C13_GenerationFailureIs503 ==
    \A q \in SingleRequests :
        q.pc = "done" =>
            /\ q.failedAt = "generate" => q.resp.status = 503
            /\ q.failedAt \in StorePcs => q.resp.status # 503

(***************************************************************************)
(* Single optimize requests running side by side.                          *)
(***************************************************************************)

\* C27: whatever the interleaving of single optimize requests, no two
\* optimization rows of one identifier that single requests inserted are
\* less than one hour apart.
C27_OneGenerationPerWindow ==
    \A q1, q2 \in SingleRequests :
        \A o1, o2 \in Range(optimizations) :
            (/\ o1.id \in Range(q1.stored) /\ o2.id \in Range(q2.stored)
             /\ o1.id # o2.id /\ SqlEq(o1.asin, o2.asin)) =>
                \/ o1.createdAt - o2.createdAt >= Hour
                \/ o2.createdAt - o1.createdAt >= Hour

\* C29: a batch optimize of 1 to 5 identifiers that answers 200 accounts for
\* every requested identifier: summary.total (the number of products handed
\* to optimizeMultipleProducts) is the number of requested identifiers, and
\* each requested identifier has its entry in successful[] or failed[].
C29_BatchAccountsForAll ==
    \A q \in BatchRequests :
        (q.pc = "done" /\ q.resp.status = 200 /\ Len(q.asins) \in 1..MaxOptimizeBatch) =>
            /\ q.batch.n = Len(q.asins)
            /\ Len(q.gens) = Len(q.asins)
            /\ \A i \in 1..Len(q.asins) :
                  \E j \in 1..Len(q.gens) : SqlEq(q.gens[j].asin, q.asins[i])

(***************************************************************************)
(* The product routes: GET /:asin and POST /batch, and the scraper.        *)
(***************************************************************************)

\* what the site may answer to one fetch: an HTTP status with the length of
\* the title found on the page (0: no selector matched) and a hundred times
\* the rating its star text gives (-1: no such text), or a network error
Pages ==
    {[status |-> 200, titleLen |-> 25, rating |-> 450, code |-> ""],
     [status |-> 200, titleLen |-> 25, rating |-> -1, code |-> ""],
     [status |-> 200, titleLen |-> 5, rating |-> -1, code |-> ""],
     [status |-> 200, titleLen |-> 0, rating |-> -1, code |-> ""],
     [status |-> 404, titleLen |-> 0, rating |-> -1, code |-> ""],
     [status |-> 403, titleLen |-> 0, rating |-> -1, code |-> ""],
     [status |-> 0, titleLen |-> 0, rating |-> -1, code |-> "ENOTFOUND"]}

\* parseFloat of the figure before ' out of 5', or null
extractRating(page) ==
    IF page.rating = -1 THEN NullValue ELSE NumberValue(page.rating)

\* a slip that hands on whatever title the page gave
fetchProductDetailsAnyTitle(asin, page) ==
    IF Len(asin) # 10
    THEN [success |-> FALSE, error |-> ErrInvalidAsin, titleLen |-> 0, rating |-> NullValue]
    ELSE IF page.code # "" \/ page.status # 200
    THEN [success |-> FALSE, error |-> ErrNetwork, titleLen |-> 0, rating |-> NullValue]
    ELSE [success |-> TRUE, error |-> <<>>, titleLen |-> page.titleLen,
          rating |-> extractRating(page)]

\* AmazonScraper.fetchProductDetails on a page: the product data, or the
\* error it throws
fetchProductDetails(asin, page) ==
    IF Len(asin) # 10
    THEN [success |-> FALSE, error |-> ErrInvalidAsin, titleLen |-> 0, rating |-> NullValue]
    ELSE IF page.code \in {"ENOTFOUND", "ECONNREFUSED"}
    THEN [success |-> FALSE, error |-> ErrNetwork, titleLen |-> 0,
          rating |-> NullValue]
    ELSE IF page.code = "ETIMEDOUT"
    THEN [success |-> FALSE, error |-> ErrTimeout, titleLen |-> 0,
          rating |-> NullValue]
    ELSE IF page.status = 404
    THEN [success |-> FALSE, error |-> ErrProductNotFound, titleLen |-> 0,
          rating |-> NullValue]
    ELSE IF page.status # 200
    THEN [success |-> FALSE, error |-> ErrStatusPrefix \o NumberText(page.status),
          titleLen |-> 0, rating |-> NullValue]
    ELSE IF page.titleLen < MinTitleLength
    THEN [success |-> FALSE, error |-> ErrNoTitle, titleLen |-> 0,
          rating |-> NullValue]
    ELSE [success |-> TRUE, error |-> <<>>, titleLen |-> page.titleLen,
          rating |-> extractRating(page)]

\* a slip that takes the one-hour window of the optimize route
IsFreshProductHour(updatedAt, t) == updatedAt > t - Hour

\* lastUpdated > twentyFourHoursAgo
IsFreshProduct(updatedAt, t) == updatedAt > t - Day

\* what the callers send as :asin
FetchInputs == {AsinA, AsinC, LowerA, ShortA}

\* what the callers send as body.asins
FetchBatchInputs ==
    {[isArray |-> FALSE, items |-> <<>>],
     [isArray |-> TRUE, items |-> <<>>],
     [isArray |-> TRUE, items |-> <<AsinA, AsinC>>],
     [isArray |-> TRUE, items |-> <<AsinA, LowerA>>],
     [isArray |-> TRUE, items |-> <<AsinA, AsinB, AsinC, AsinA, AsinB, AsinC,
                                    AsinA, AsinB, AsinC, AsinA, AsinB>>]}

\* the clock readings, other than timer deadlines, at which the routes are
\* observed
FetchInstants ==
    {StartTime + d : d \in {23 * 60 * Minute, 25 * 60 * Minute}}

\* a slip that leaves out the check of each identifier's shape
FetchBatchValidNoShape(in) ==
    /\ in.isArray /\ Len(in.items) # 0
    /\ Len(in.items) <= MaxFetchBatch

\* the three checks of POST /batch: a non-empty array, at most ten, all valid
FetchBatchValid(in) ==
    /\ in.isArray /\ Len(in.items) # 0
    /\ Len(in.items) <= MaxFetchBatch
    /\ \A j \in 1..Len(in.items) : isValidASIN(in.items[j])

\* the identifiers a request that passed its checks asks the site for
Wanted(q) ==
    IF q.kind \in {"fetch", "fetchBatch"} /\ (q.queries > 0 \/ q.fetched > 0)
    THEN Len(q.asins) ELSE 0

RECURSIVE WantedBy(_)
WantedBy(qs) == IF qs = <<>> THEN 0 ELSE Wanted(Head(qs)) + WantedBy(Tail(qs))

\* a further request for n identifiers fits the bounds
FetchFits(n) == Arrives /\ WantedBy(reqs) + n <= MaxWanted

\* GET /:asin starts: 400 for an invalid identifier, else the product query
FetchRequest ==
    /\ \E asin \in FetchInputs :
          LET q == NewRequest("fetch", <<asin>>) IN
          /\ FetchFits(IF isValidASIN(asin) THEN 1 ELSE 0)
          /\ reqs' = Append(reqs,
                IF ~isValidASIN(asin) THEN Respond(q, 400, "", 0)
                ELSE [q EXCEPT !.pc = "selectProduct", !.queries = 1])
    /\ UNCHANGED <<now, engineVars, storeVars, faults>>

\* the product query returns: the cached answer, or the site fetch starts
FetchSelectProduct ==
    /\ \E r \in 1..Len(reqs) :
          LET q == reqs[r]
              res == Execute([op |-> "selectProduct", asin |-> q.asins[1]], now, FALSE)
              rows == res.rows
              q1 == [q EXCEPT !.found = rows, !.gateAt = now,
                              !.gateNewest = IF Len(rows) = 0 THEN -1
                                             ELSE rows[1].updatedAt]
          IN /\ q.kind = "fetch" /\ q.pc = "selectProduct"
             /\ reqs' = [reqs EXCEPT ![r] =
                   IF ~res.ok THEN Fail(q, res.message)
                   ELSE IF Len(rows) > 0 /\ IsFreshProduct(rows[1].updatedAt, now)
                   THEN Respond([q1 EXCEPT !.data =
                                    [title |-> rows[1].titleLen,
                                     rating |-> ReadDecimal(rows[1].rating)]],
                                200, "cached", rows[1].id)
                   ELSE [q1 EXCEPT !.pc = "scraping", !.fetched = 1]]
    /\ UNCHANGED <<now, engineVars, storeVars, faults>>

\* fetchProductDetails settles: the upsert is issued, or the error is answered
FetchScraped ==
    /\ \E r \in 1..Len(reqs), page \in Pages :
          LET q == reqs[r]
              res == fetchProductDetails(q.asins[1], page)
              q1 == [q EXCEPT !.scraped = <<[asin |-> q.asins[1], success |-> res.success,
                                            error |-> res.error, titleLen |-> res.titleLen,
                                            rating |-> res.rating]>>]
          IN /\ q.kind = "fetch" /\ q.pc = "scraping"
             /\ reqs' = [reqs EXCEPT ![r] =
                   IF res.success
                   THEN [q1 EXCEPT !.pc = "upsert", !.cur = 1, !.queries = @ + 1]
                   ELSE Respond([q1 EXCEPT !.failedAt = "scrape"],
                                FetchErrorStatus(res.error), "", 0)]
    /\ UNCHANGED <<now, engineVars, storeVars, faults>>

\* POST /batch starts: 400 unless the three checks pass, else
\* scraper.fetchMultipleProducts(asins) is called and requests the first page
FetchBatchRequest ==
    /\ \E in \in FetchBatchInputs :
          LET q == NewRequest("fetchBatch", in.items) IN
          /\ FetchFits(IF FetchBatchValid(in) THEN Len(in.items) ELSE 0)
          /\ reqs' = Append(reqs,
                IF ~FetchBatchValid(in) THEN Respond(q, 400, "", 0)
                ELSE [q EXCEPT !.pc = "scraping", !.fetched = 1])
    /\ UNCHANGED <<now, engineVars, storeVars, faults>>

SuccessfulScrapes(q) == LET Ok(x) == x.success IN SelectSeq(q.scraped, Ok)

\* the loop over results of POST /batch, entered at its j-th success
UpsertLoop(q, j) ==
    IF j <= Len(SuccessfulScrapes(q))
    THEN [q EXCEPT !.pc = "upsert", !.cur = j, !.queries = @ + 1]
    ELSE Respond(q, 200, "", 0)

\* one fetchProductDetails of fetchMultipleProducts settles and its result is
\* pushed.  After a success that is not the last the loop waits delayMs on a
\* timer; after a failure it requests the next page at once; after the last
\* it returns to the route.
FetchBatchScraped ==
    /\ \E r \in 1..Len(reqs), page \in Pages :
          LET q == reqs[r]
              i == Len(q.scraped) + 1
              res == fetchProductDetails(q.asins[i], page)
              q1 == [q EXCEPT !.scraped = Append(@, [asin |-> q.asins[i],
                                 success |-> res.success, error |-> res.error,
                                 titleLen |-> res.titleLen, rating |-> res.rating])]
          IN /\ q.kind = "fetchBatch" /\ q.pc = "scraping"
             /\ reqs' = [reqs EXCEPT ![r] =
                   IF i < Len(q.asins)
                   THEN IF res.success
                        THEN [q1 EXCEPT !.pc = "delay", !.wakeAt = now + delayMs]
                        ELSE [q1 EXCEPT !.fetched = @ + 1]
                   ELSE UpsertLoop(q1, 1)]
    /\ UNCHANGED <<now, engineVars, storeVars, faults>>

\* the timer between two pages fires: the next page is requested
FetchBatchDelayWake ==
    /\ \E r \in 1..Len(reqs) :
          LET q == reqs[r] IN
          /\ q.kind = "fetchBatch" /\ q.pc = "delay"
          /\ now >= q.wakeAt
          /\ reqs' = [reqs EXCEPT ![r] = [q EXCEPT !.pc = "scraping", !.fetched = @ + 1]]
    /\ UNCHANGED <<now, engineVars, storeVars, faults>>

\* the row of an identifier in a store
RowOf(S, asin) == LET Match(row) == SqlEq(row.asin, asin) IN SelectSeq(S.products, Match)

\* the upsert of a fetched product is answered
UpsertFetched ==
    /\ \E r \in 1..Len(reqs), burn \in BOOLEAN :
          LET q == reqs[r]
              got == SuccessfulScrapes(q)[q.cur]
              res == Execute(UpsertProductStatement(got.asin, got.titleLen, got.rating),
                             now, burn)
              q1 == [q EXCEPT !.writes = @ + 1,
                              !.stored = @ \o RowOf(res.store, got.asin)]
          IN /\ q.kind \in {"fetch", "fetchBatch"} /\ q.pc = "upsert"
             /\ SetStore(res.store)
             /\ reqs' = [reqs EXCEPT ![r] =
                   IF ~res.ok THEN Fail(q, res.message)
                   ELSE IF q.kind = "fetch"
                   THEN Respond([q1 EXCEPT !.data = [title |-> got.titleLen,
                                                     rating |-> got.rating]],
                                200, "fresh", 0)
                   ELSE UpsertLoop(q1, q.cur + 1)]
    /\ UNCHANGED <<now, engineVars, faults>>

\* the clock advances, to an instant at which a request comes or a timer is
\* due.  The instants are hours apart, and a request or a script is through
\* its awaits within seconds: between two instants nothing is in flight.
TickFetch ==
    /\ \E t \in Deadlines \cup (IF Running = {} THEN FetchInstants ELSE {}) :
          /\ MayAdvanceTo(t)
          /\ now' = t
    /\ UNCHANGED <<engineVars, storeVars, optVars>>

\* the row seedTestData leaves, inserted at time t
SeededProducts(t) ==
    <<[id |-> 1, asin |-> AsinA, titleLen |-> 56, rating |-> StoreDecimal(NumberValue(470)),
       updatedAt |-> DbNow(t)]>>

\* the server starts on the tables of createDatabase, empty or as
\* database-init left them just before
InitFetch ==
    /\ now = StartTime
    /\ IdleEngine
    /\ tables = AllTables
    /\ \E seeded \in BOOLEAN :
          /\ products = IF seeded THEN SeededProducts(StartTime) ELSE <<>>
          /\ autoInc = [products |-> IF seeded THEN 2 ELSE 1, optimizations |-> 1]
    /\ optimizations = <<>>
    /\ history = <<>>
    /\ keywordTracking = {}
    /\ reqs = <<>>
    /\ faults = 0

NextFetch ==
    \/ TickFetch
    \/ FetchRequest
    \/ FetchSelectProduct
    \/ FetchScraped
    \/ FetchBatchRequest
    \/ FetchBatchScraped
    \/ FetchBatchDelayWake
    \/ UpsertFetched
    \/ StoreStatementFails
    \/ ProductScriptStart
    \/ ScriptStatement

SpecFetch == InitFetch /\ [][NextFetch]_vars

(***************************************************************************)
(* Properties of the product routes.                                       *)
(***************************************************************************)

FetchRequests == {q \in Requests : q.kind = "fetch"}
FetchBatchRequests == {q \in Requests : q.kind = "fetchBatch"}

\* C3: a fetch of a valid identifier whose stored product was updated less
\* than 24 hours before answers 200 'cached' with that row, fetches nothing
\* from the site and writes nothing; one that finds no row, or a row updated
\* more than 24 hours before, fetches from the site, never answers 'cached',
\* and when the fetch and the upsert succeed has written the row and answers
\* 200 'fresh'.
C3_ProductGate ==
    \A q \in FetchRequests :
        q.gateAt # -1 =>
            /\ (q.gateNewest # -1 /\ q.gateAt - q.gateNewest < Day) =>
                  /\ q.pc = "done"
                  /\ q.resp.status = 200 /\ q.resp.source = "cached"
                  /\ q.resp.opt = q.found[1].id
                  /\ q.data.title = q.found[1].titleLen
                  /\ q.fetched = 0 /\ q.writes = 0
            /\ (q.gateNewest = -1 \/ q.gateAt - q.gateNewest > Day) =>
                  /\ q.resp.source # "cached"
                  /\ q.fetched = 1
                  /\ Completed(q) =>
                        /\ q.resp.status = 200 /\ q.resp.source = "fresh"
                        /\ q.writes = 1
                        /\ Len(q.stored) = 1
                        /\ SqlEq(q.stored[1].asin, q.asins[1])
                        /\ q.stored[1].titleLen = q.scraped[1].titleLen

\* a product updated 23 hours before is served from the store
C3_Witness ==
    \E q \in FetchRequests :
        /\ q.pc = "done" /\ q.resp.source = "cached"
        /\ q.gateAt - q.gateNewest = 23 * 60 * Minute

\* C10: a fetch of an invalid identifier, and a batch fetch whose list is
\* no array, empty, longer than ten or holds an invalid identifier, is
\* answered 400 having issued no store statement, no store write and no
\* site fetch.
C10_FetchValidation ==
    \A q \in FetchRequests \cup FetchBatchRequests :
        (\/ \E j \in 1..Len(q.asins) : ~isValidASIN(q.asins[j])
         \/ (q.kind = "fetchBatch" /\ (Len(q.asins) = 0 \/ Len(q.asins) > MaxFetchBatch)))
        => /\ q.pc = "done" /\ q.resp.status = 400
           /\ q.queries = 0 /\ q.writes = 0 /\ q.fetched = 0

\* a batch holding an invalid identifier and a single invalid fetch, both refused
C10_Witness ==
    /\ \E q \in FetchBatchRequests :
          /\ Len(q.asins) = 2 /\ ~isValidASIN(q.asins[2])
          /\ q.resp.status = 400
    /\ \E q \in FetchRequests :
          /\ ~isValidASIN(q.asins[1])
          /\ q.resp.status = 400

\* C14: a fetch whose page came with status 200 and a title that is
\* missing or shorter than 10 characters is answered 404.
C14_NoTitleIsNotFound ==
    \A q \in FetchRequests :
        (q.pc = "done" /\ Len(q.scraped) = 1 /\ q.scraped[1].error = ErrNoTitle)
            => q.resp.status = 404

\* C17: when a fetch of an identifier that was not stored was answered
\* 'fresh', a fetch of the same identifier whose product query saw the row it
\* wrote less than 24 hours after its update made no site fetch and was
\* answered 200 'cached' with the same title and rating.
C17_SecondFetchIdentical ==
    \A r1 \in 1..Len(reqs), r2 \in 1..Len(reqs) :
        LET q1 == reqs[r1]
            q2 == reqs[r2]
        IN (/\ r1 < r2
            /\ q1.kind = "fetch" /\ q2.kind = "fetch"
            /\ q1.asins = q2.asins
            /\ q1.gateNewest = -1
            /\ q1.pc = "done" /\ q1.resp.source = "fresh"
            /\ q2.gateNewest # -1 /\ q2.gateAt - q2.gateNewest < Day
            /\ q2.found = q1.stored)
           => /\ q2.pc = "done" /\ q2.fetched = 0
              /\ q2.resp.status = 200 /\ q2.resp.source = "cached"
              /\ q2.data = q1.data

\* C23: every product row a fetch wrote has a title of at least 10
\* characters and holds what the successful site fetch of its identifier
\* returned; a fetch whose page gave no title or a shorter one fails and
\* writes nothing.
C23_StoredTitlesLongEnough ==
    /\ \A q \in FetchRequests \cup FetchBatchRequests :
          /\ Len(q.stored) = q.writes
          /\ q.writes <= Len(SuccessfulScrapes(q))
          /\ \A j \in 1..Len(q.stored) :
                /\ q.stored[j].titleLen >= MinTitleLength
                /\ SqlEq(q.stored[j].asin, SuccessfulScrapes(q)[j].asin)
                /\ q.stored[j].titleLen = SuccessfulScrapes(q)[j].titleLen
                /\ q.stored[j].rating = StoreDecimal(SuccessfulScrapes(q)[j].rating)
    /\ \A q \in FetchRequests :
          (Len(q.scraped) = 1 /\ q.scraped[1].error = ErrNoTitle) =>
              /\ q.pc = "done" /\ q.resp.status >= 400
              /\ q.writes = 0

\* a stored product that was stale is fetched again, the page has no usable
\* title, and the row is still the one stored before
C23_Witness ==
    \E q \in FetchRequests :
        /\ q.gateNewest # -1
        /\ Len(q.scraped) = 1 /\ q.scraped[1].error = ErrNoTitle
        /\ \E row \in Range(products) :
              SqlEq(row.asin, q.asins[1]) /\ row.updatedAt = q.gateNewest

\* C24: a batch fetch that passed validation answers 200 with one result per
\* requested identifier in request order, and a failure on one identifier
\* (its site fetch or its store write) leaves the others fetched, stored and
\* reported: at most the failing write is missing among the stored products.
C24_BatchFailuresIsolated ==
    \A q \in FetchBatchRequests :
        (q.pc = "done" /\ q.scraped # <<>>) =>
            /\ q.resp.status = 200
            /\ Len(q.scraped) = Len(q.asins)
            /\ \A i \in 1..Len(q.asins) : q.scraped[i].asin = q.asins[i]
            /\ q.writes >= Len(SuccessfulScrapes(q)) - (IF q.failedAt = "upsert" THEN 1 ELSE 0)

(***************************************************************************)
(* The feedback route: POST /:optimizationId/feedback.                     *)
(***************************************************************************)

\* action_type ENUM('created', 'updated', 'viewed')
ActionTypeEnum == {"created", "updated", "viewed"}

\* body.rating as JSON carries it: a number, kept as twice its value so that
\* 2.5 is x2 = 5, or a string, or nothing
Ratings ==
    {[type |-> "number", x2 |-> 0], [type |-> "number", x2 |-> 2],
     [type |-> "number", x2 |-> 5], [type |-> "number", x2 |-> 10],
     [type |-> "number", x2 |-> 12], [type |-> "string", x2 |-> 10],
     [type |-> "undefined", x2 |-> 0]}

\* the requests: :optimizationId, body.rating, and whether body.feedback
\* (the object holding helpful and improvements) and body.comments are given
FeedbackInputs ==
    [optimizationId : {1, 7}, rating : Ratings, hasFeedback : BOOLEAN,
     hasComments : BOOLEAN]

\* !(!feedback || typeof rating !== 'number' || rating < 1 || rating > 5)
FeedbackValid(in) ==
    /\ in.hasFeedback
    /\ in.rating.type = "number"
    /\ ~(in.rating.x2 < 2) /\ ~(in.rating.x2 > 10)

\* the handler starts: 400, or the optimization query is issued
FeedbackRequest ==
    /\ Arrives
    /\ \E in \in FeedbackInputs :
          LET q == [NewRequest("feedback", <<>>) EXCEPT !.input = in] IN
          reqs' = Append(reqs,
                IF ~FeedbackValid(in) THEN Respond(q, 400, "", 0)
                ELSE [q EXCEPT !.pc = "selectOptimization", !.queries = 1])
    /\ UNCHANGED <<now, engineVars, storeVars, faults>>

\* the optimization query returns: 404, or the history insert is issued
FeedbackSelectOptimization ==
    /\ \E r \in 1..Len(reqs) :
          LET q == reqs[r]
              res == Execute([op |-> "selectOptimization", id |-> q.input.optimizationId],
                             now, FALSE)
          IN /\ q.kind = "feedback" /\ q.pc = "selectOptimization"
             /\ reqs' = [reqs EXCEPT ![r] =
                   IF ~res.ok THEN Fail(q, res.message)
                   ELSE IF Len(res.rows) = 0 THEN Respond(q, 404, "", 0)
                   ELSE [q EXCEPT !.pc = "insertFeedback", !.found = res.rows,
                                  !.queries = @ + 1]]
    /\ UNCHANGED <<now, engineVars, storeVars, faults>>

\* INSERT INTO optimization_history (..., action_type, ...) VALUES (..., 'feedback', ...)
\* is answered.  'feedback' is no member of the column's ENUM: under a strict
\* sql_mode the statement is refused, otherwise the row is stored with the
\* empty string as its action_type.
FeedbackInsert ==
    /\ \E r \in 1..Len(reqs), strict \in BOOLEAN :
          LET q == reqs[r]
              asin == q.found[1].asin
              id == q.input.optimizationId
              known == "feedback" \in ActionTypeEnum
              res == Execute(InsertHistoryStatement(asin, id,
                                 IF known THEN "feedback" ELSE "", DefaultTime),
                             now, FALSE)
          IN /\ q.kind = "feedback" /\ q.pc = "insertFeedback"
             /\ IF ~res.ok
                THEN /\ UNCHANGED storeVars
                     /\ reqs' = [reqs EXCEPT ![r] = Fail(q, res.message)]
                ELSE IF ~known /\ strict
                THEN /\ UNCHANGED storeVars
                     /\ reqs' = [reqs EXCEPT ![r] =
                           [Fail(q, MsgTruncated) EXCEPT !.failedAt = "enum"]]
                ELSE /\ SetStore(res.store)
                     /\ reqs' = [reqs EXCEPT ![r] =
                           Respond([q EXCEPT !.writes = @ + 1], 200, "", id)]
    /\ UNCHANGED <<now, engineVars, faults>>

\* the rows in the store when the feedback comes: one product was optimized
\* before, optimization 1 and its 'created' entry
InitFeedback ==
    /\ now = StartTime
    /\ IdleEngine
    /\ tables = AllTables
    /\ autoInc = [products |-> 2, optimizations |-> 2]
    /\ products = <<[id |-> 1, asin |-> AsinA, titleLen |-> 25, rating |-> -1,
                     updatedAt |-> DbNow(StartTime)]>>
    /\ optimizations = <<[id |-> 1, productId |-> 1, asin |-> AsinA,
                         keywords |-> stringify(<<K1, K2>>),
                         createdAt |-> DbNow(StartTime)]>>
    /\ history = <<[asin |-> AsinA, optimizationId |-> 1, actionType |-> "created",
                    createdAt |-> DbNow(StartTime)]>>
    /\ keywordTracking = {<<AsinA, K1>>, <<AsinA, K2>>}
    /\ reqs = <<>>
    /\ faults = 0

NextFeedback ==
    \/ FeedbackRequest
    \/ FeedbackSelectOptimization
    \/ FeedbackInsert
    \/ StoreStatementFails

SpecFeedback == InitFeedback /\ [][NextFeedback]_vars

FeedbackRequests == {q \in Requests : q.kind = "feedback"}

\* the rating is an integer in 1..5
IsIntegerRating(rating) == rating.type = "number" /\ rating.x2 \in {2, 4, 6, 8, 10}

\* C15: a feedback request whose rating is no integer in 1..5 is answered
\* 400 and appends no history row.
C15_BadRatingRejected ==
    \A q \in FeedbackRequests :
        ~IsIntegerRating(q.input.rating) =>
            /\ q.pc = "done" /\ q.resp.status = 400
            /\ q.writes = 0 /\ q.queries = 0

\* C16: a feedback request with an integer rating in 1..5 whose store
\* statements do not fail is answered 200 having appended one history row of
\* type 'feedback' for the optimization when the optimization exists, and is
\* answered 404 having appended nothing when it does not.
C16_FeedbackAppended ==
    \A q \in FeedbackRequests :
        (/\ IsIntegerRating(q.input.rating)
         /\ q.pc = "done"
         /\ q.failedAt \notin {"selectOptimization", "insertFeedback"}) =>
            IF SelectOptimizationById(q.input.optimizationId) # <<>>
            THEN /\ q.resp.status = 200 /\ q.writes = 1
                 /\ \E j \in 1..Len(history) :
                       /\ history[j].actionType = "feedback"
                       /\ history[j].optimizationId = q.input.optimizationId
            ELSE q.resp.status = 404 /\ q.writes = 0

(***************************************************************************)
(* Decoding of the stored keyword payload (suggested_keywords) at the      *)
(* three sites that read it.                                               *)
(***************************************************************************)

RECURSIVE TextsOfLen(_)
TextsOfLen(n) ==
    IF n = 0 THEN {<<>>}
    ELSE {Append(t, c) : t \in TextsOfLen(n - 1), c \in Alphabet}

\* the payloads a row may hold: NULL, a text, or a value the driver has
\* decoded already (the column is JSON)
Payloads ==
    {JsonNull}
    \cup {JsonString(t) : t \in UNION {TextsOfLen(n) : n \in 0..MaxPayloadLen}}
    \cup {JsonString(t) : t \in
            {<<"[", "\"", "a", "\"", ",", "\"", "b", "\"", "]">>,
             <<"a", ",", " ", "b">>,
             <<"[", "a", ",", " ", "b", "]">>,
             <<"\"", "a", "b", "\"">>,
             <<"5">>,
             <<"{", "}">>,
             <<"[", "a", "'", "a", ",", "b", "]">>,
             <<"[", "1", ",", "5", "]">>}}
    \cup {JsonArray(<<>>),
          JsonArray(<<JsonString(<<"a">>), JsonString(<<"b">>)>>),
          JsonArray(<<JsonString(<<"a">>)>>),
          JsonArray(<<JsonString(<<"5">>)>>)}

\* GET /api/history/:asin: the suggestedKeywords of one optimization
DecodeHistoryByAsin(raw) ==
    LET r == JsonParse(String(IF Falsy(raw) THEN JsonString(EmptyArrayText) ELSE raw)) IN
    IF r.ok THEN r.val
    ELSE IF ~Falsy(raw) /\ raw.type = "string"
    THEN IF Bracketed(raw.text)
         THEN JsonArray(StringsOf(MapTrimReplace(split(slice(raw.text)))))
         ELSE JsonArray(StringsOf(MapTrim(split(raw.text))))
    ELSE JsonArray(<<>>)

\* GET /api/history: the suggestedKeywords of one optimization
DecodeHistoryFiltered(raw) ==
    LET r == JsonParse(String(IF Falsy(raw) THEN JsonString(EmptyArrayText) ELSE raw)) IN
    IF r.ok THEN r.val
    ELSE IF ~Falsy(raw) /\ raw.type = "string"
    THEN IF Bracketed(raw.text)
         THEN JsonArray(StringsOf(MapTrimReplace(split(slice(raw.text)))))
         ELSE JsonArray(StringsOf(MapTrim(split(raw.text))))
    ELSE JsonArray(<<>>)

\* POST /api/optimize/:asin: the suggestedKeywords of the cached answer
DecodeCached(raw) ==
    LET first == IF Falsy(raw) THEN EmptyArrayText ELSE String(raw)
        keywordsString == IF Falsy(raw) THEN <<>> ELSE String(raw)
        r == JsonParse(first)
    IN IF r.ok THEN r.val
       ELSE IF keywordsString = <<>> THEN JsonArray(<<>>)
       ELSE IF Bracketed(keywordsString)
       THEN LET r2 == JsonParse(keywordsString) IN
            IF r2.ok THEN r2.val
            ELSE JsonArray(StringsOf(NonEmpty(MapTrimReplace(split(slice(keywordsString))))))
       ELSE IF includes(keywordsString, <<",">>)
       THEN JsonArray(StringsOf(NonEmpty(MapTrim(split(keywordsString)))))
       ELSE IF trim(keywordsString) # <<>>
       THEN JsonArray(<<JsonString(trim(keywordsString))>>)
       ELSE JsonArray(<<>>)

\* a row's payload is about to be decoded
InitKeywords ==
    /\ now = StartTime
    /\ IdleEngine
    /\ EmptyStore
    /\ \E raw \in Payloads :
          reqs = <<[NewRequest("decode", <<>>) EXCEPT !.input = raw]>>
    /\ faults = 0

\* the decoder of a site runs on the payload
Decoded(site, value) ==
    /\ reqs[1].pc = "start"
    /\ reqs' = [reqs EXCEPT ![1] = [@ EXCEPT !.pc = "done", !.kind = site, !.data = value]]
    /\ UNCHANGED <<now, engineVars, storeVars, faults>>

HistoryByAsinDecodes == Decoded("historyByAsin", DecodeHistoryByAsin(reqs[1].input))
HistoryFilteredDecodes == Decoded("historyFiltered", DecodeHistoryFiltered(reqs[1].input))
CachedDecodes == Decoded("cached", DecodeCached(reqs[1].input))

NextKeywords ==
    \/ HistoryByAsinDecodes
    \/ HistoryFilteredDecodes
    \/ CachedDecodes

SpecKeywords == InitKeywords /\ [][NextKeywords]_vars

\* the value is a sequence of strings
IsStringSequence(v) ==
    /\ v.type = "array"
    /\ \A j \in 1..Len(v.items) : v.items[j].type = "string"

\* C18: whatever payload a row holds, what each of the three sites decodes
\* from it is a sequence of strings.
C18_DecodeYieldsStrings ==
    reqs[1].pc = "done" => IsStringSequence(reqs[1].data)

StripEnd(k) == IF k # <<>> /\ k[Len(k)] \in QuoteChars THEN SubSeq(k, 1, Len(k) - 1) ELSE k
StripStart(k) == IF k # <<>> /\ Head(k) \in QuoteChars THEN Tail(k) ELSE k
MapTrimStrip(pieces) == [j \in 1..Len(pieces) |-> StripEnd(StripStart(trim(pieces[j])))]

\* the five-step resolution order
parseKeywords(raw) ==
    LET text == IF raw.type = "null" THEN <<>> ELSE String(raw)
        r == IF raw.type = "array" THEN [ok |-> TRUE, val |-> raw, next |-> 0]
             ELSE JsonParse(text)
    IN IF r.ok THEN r.val
       ELSE IF Bracketed(text)
       THEN JsonArray(StringsOf(MapTrimStrip(split(slice(text)))))
       ELSE IF includes(text, <<",">>)
       THEN JsonArray(StringsOf(MapTrim(split(text))))
       ELSE IF trim(text) # <<>>
       THEN JsonArray(<<JsonString(trim(text))>>)
       ELSE JsonArray(<<>>)

\* C19: on every text or NULL payload the decoders of GET /api/history and
\* of the cached optimize answer return what the five-step resolution order
\* prescribes.
C19_DecodeFollowsResolutionOrder ==
    (/\ reqs[1].pc = "done"
     /\ reqs[1].kind \in {"historyFiltered", "cached"}
     /\ reqs[1].input.type \in {"null", "string"})
        => reqs[1].data = parseKeywords(reqs[1].input)

DecodingSites == {"historyByAsin", "historyFiltered", "cached"}

\* C28: the three keyword-decoding sites are equivalent: what one site
\* returns for a stored payload is what each of the other two returns for it.
C28_DecodingSitesAgree ==
    (reqs[1].kind \in DecodingSites /\ reqs[1].pc = "done") =>
        /\ reqs[1].data = DecodeHistoryByAsin(reqs[1].input)
        /\ reqs[1].data = DecodeHistoryFiltered(reqs[1].input)
        /\ reqs[1].data = DecodeCached(reqs[1].input)

(***************************************************************************)
(* GeminiOptimizer.calculateOptimizationScore.  Texts are seen through     *)
(* their lengths; -1 stands for a field that is null.                      *)
(***************************************************************************)

\* the longest bullet and description texts drawn
MaxTextLen == 2
\* the most keywords drawn
MaxKeywordCount == 4

TitleLimit == 200
TitlePoints == 20
BulletPoints == 25
DescriptionPoints == 25
KeywordPoints == 30
KeywordThreshold == 3
MaxScore == 100

TitleLens == {0, 1, TitleLimit - 1, TitleLimit, TitleLimit + 1}

\* original: the stored product; optimized: what the four calls returned
ScoreInputs ==
    [original : [title : TitleLens, bulletPoints : -1..MaxTextLen,
                 description : -1..MaxTextLen],
     optimized : [title : TitleLens, bulletPoints : 0..MaxTextLen,
                  description : 0..MaxTextLen, suggestedKeywords : 0..MaxKeywordCount]]

\* original.x?.length || 0
LengthOrZero(len) == IF len = -1 THEN 0 ELSE len


\* a slip that leaves out the upper limit of the title
calculateOptimizationScoreNoLimit(original, optimized) ==
    LET t == optimized.title > original.title
        b == optimized.bulletPoints > 0
             /\ optimized.bulletPoints > LengthOrZero(original.bulletPoints)
        d == optimized.description > 0
             /\ optimized.description > LengthOrZero(original.description)
        k == optimized.suggestedKeywords >= KeywordThreshold
        score == (IF t THEN TitlePoints ELSE 0) + (IF b THEN BulletPoints ELSE 0)
                 + (IF d THEN DescriptionPoints ELSE 0) + (IF k THEN KeywordPoints ELSE 0)
    IN [score |-> Min(score, MaxScore),
        factors |-> (IF t THEN <<"Enhanced title length">> ELSE <<>>)
                    \o (IF b THEN <<"Improved bullet points">> ELSE <<>>)
                    \o (IF d THEN <<"Enhanced description">> ELSE <<>>)
                    \o (IF k THEN <<"Added keyword strategy">> ELSE <<>>),
        maxScore |-> MaxScore]

calculateOptimizationScore(original, optimized) ==
    LET t == optimized.title > original.title /\ optimized.title <= TitleLimit
        b == optimized.bulletPoints > 0
             /\ optimized.bulletPoints > LengthOrZero(original.bulletPoints)
        d == optimized.description > 0
             /\ optimized.description > LengthOrZero(original.description)
        k == optimized.suggestedKeywords >= KeywordThreshold
        score == (IF t THEN TitlePoints ELSE 0) + (IF b THEN BulletPoints ELSE 0)
                 + (IF d THEN DescriptionPoints ELSE 0) + (IF k THEN KeywordPoints ELSE 0)
    IN [score |-> Min(score, MaxScore),
        factors |-> (IF t THEN <<"Enhanced title length">> ELSE <<>>)
                    \o (IF b THEN <<"Improved bullet points">> ELSE <<>>)
                    \o (IF d THEN <<"Enhanced description">> ELSE <<>>)
                    \o (IF k THEN <<"Added keyword strategy">> ELSE <<>>),
        maxScore |-> MaxScore]

\* a generation is about to be scored
InitScore ==
    /\ now = StartTime
    /\ IdleEngine
    /\ EmptyStore
    /\ \E in \in ScoreInputs :
          reqs = <<[NewRequest("score", <<>>) EXCEPT !.input = in]>>
    /\ faults = 0

\* optimizer.calculateOptimizationScore(result.original, result.optimized)
ScoreComputed ==
    /\ reqs[1].pc = "start"
    /\ reqs' = [reqs EXCEPT ![1] =
          [@ EXCEPT !.pc = "done",
                    !.data = calculateOptimizationScore(reqs[1].input.original,
                                                        reqs[1].input.optimized)]]
    /\ UNCHANGED <<now, engineVars, storeVars, faults>>

NextScore == ScoreComputed

SpecScore == InitScore /\ [][NextScore]_vars

\* the score is computed again on the same inputs
ScoredAgain(q) == calculateOptimizationScore(q.input.original, q.input.optimized)

\* C20: the score is the sum of 20 for a generated title longer than the
\* original and at most 200 long, 25 for generated bullets longer than the
\* original ones (null counted as 0), 25 likewise for the description and 30
\* for at least 3 keywords; it lies in 0..100, the factors are the labels of
\* the triggered terms in that order, and the same inputs give the same
\* output.
C20_ScoreIsAdditive ==
    LET q == reqs[1]
        o == q.input.original
        g == q.input.optimized
        olen(x) == IF x = -1 THEN 0 ELSE x
        t == g.title > o.title /\ g.title <= 200
        b == g.bulletPoints > olen(o.bulletPoints)
        d == g.description > olen(o.description)
        k == g.suggestedKeywords >= 3
        sum == (IF t THEN 20 ELSE 0) + (IF b THEN 25 ELSE 0)
               + (IF d THEN 25 ELSE 0) + (IF k THEN 30 ELSE 0)
        labels == (IF t THEN <<"Enhanced title length">> ELSE <<>>)
                  \o (IF b THEN <<"Improved bullet points">> ELSE <<>>)
                  \o (IF d THEN <<"Enhanced description">> ELSE <<>>)
                  \o (IF k THEN <<"Added keyword strategy">> ELSE <<>>)
    IN q.pc = "done" =>
          /\ q.data.score = (IF sum < 100 THEN sum ELSE 100)
          /\ q.data.score >= 0 /\ q.data.score <= 100
          /\ q.data.factors = labels
          /\ (g.title > 200 => "Enhanced title length" \notin Range(q.data.factors))
          /\ q.data = ScoredAgain(q)

\* all four terms triggered: 100 with four factors
C20_Witness ==
    /\ reqs[1].pc = "done"
    /\ reqs[1].data.score = 100 /\ Len(reqs[1].data.factors) = 4
    /\ reqs[1].input.original.bulletPoints = -1

(***************************************************************************)
(* AmazonScraper.isValidASIN on any value.                                 *)
(***************************************************************************)

\* the longest token drawn
MaxTokenLen == 11

TokenChars == {"A", "Z", "0", "9", "a", "z", "-", " ", "\n"}

\* n times the letter A
Repeat(n) == [j \in 1..n |-> "A"]

\* the values handed to the validator: the empty string, strings of every
\* length up to MaxTokenLen with one character of each kind at each position,
\* the tokens of the routes, and values that are no strings
ValidateTokens ==
    {JsonString(<<>>), JsonString(AsinA), JsonString(LowerA), JsonString(ShortA)}
    \cup UNION {{JsonString([Repeat(n) EXCEPT ![p] = c]) : p \in 1..n, c \in TokenChars}
                   : n \in 1..MaxTokenLen}
    \cup {JsonNull, JsonNumber(<<"1", "2", "3", "4", "5", "6", "7", "8", "9", "0">>),
          JsonArray(<<JsonString(AsinA)>>)}

\* typeof asin === 'string' && asin.length === 10 && /^[A-Z0-9]+$/.test(asin)
ValidateToken(v) == v.type = "string" /\ isValidASIN(v.text)

\* a value is about to be validated
InitValidate ==
    /\ now = StartTime
    /\ IdleEngine
    /\ EmptyStore
    /\ \E v \in ValidateTokens :
          reqs = <<[NewRequest("validate", <<>>) EXCEPT !.input = v]>>
    /\ faults = 0

\* scraper.isValidASIN(asin)
Validated ==
    /\ reqs[1].pc = "start"
    /\ reqs' = [reqs EXCEPT ![1] =
          [@ EXCEPT !.pc = "done", !.data = [valid |-> ValidateToken(reqs[1].input)]]]
    /\ UNCHANGED <<now, engineVars, storeVars, faults>>

NextValidate == Validated

SpecValidate == InitValidate /\ [][NextValidate]_vars

\* C21: the validator answers true exactly for the strings of 10 characters
\* that are all capital letters or digits, and false for every other value;
\* the value it was given is still one of the values drawn.
C21_ValidatorExact ==
    LET q == reqs[1]
        v == q.input
        shaped == /\ v.type = "string"
                  /\ Len(v.text) = 10
                  /\ \A j \in 1..Len(v.text) : v.text[j] \in UpperAlnum
    IN /\ v \in ValidateTokens
       /\ q.pc = "done" => (q.data.valid <=> shaped)

\* a valid identifier has been judged valid
C21_Witness ==
    /\ reqs[1].pc = "done"
    /\ reqs[1].input = JsonString(AsinA) /\ reqs[1].data.valid

(***************************************************************************)
(* The router of /api/optimize: express tries the routes in the order in   *)
(* which they were registered and runs the first whose method and path     *)
(* match; none of these handlers calls next().                             *)
(***************************************************************************)

BatchSegment == <<"b", "a", "t", "c", "h">>
StatsSegment == <<"s", "t", "a", "t", "s">>

Param == [param |-> TRUE, text |-> <<>>]
Literal(text) == [param |-> FALSE, text |-> text]

\* router.post('/:asin'), router.post('/batch'), router.get('/stats')
RouteTable ==
    <<[method |-> "POST", pattern |-> <<Param>>, handler |-> "single"],
      [method |-> "POST", pattern |-> <<Literal(BatchSegment)>>, handler |-> "batch"],
      [method |-> "GET", pattern |-> <<Literal(StatsSegment)>>, handler |-> "stats"]>>

\* the route matches the method and every segment of the path
RouteMatches(route, method, segs) ==
    /\ route.method = method
    /\ Len(route.pattern) = Len(segs)
    /\ \A j \in 1..Len(segs) : route.pattern[j].param \/ route.pattern[j].text = segs[j]

\* the handler of the first route that matches, "none" if no route does
Dispatch(method, segs) ==
    LET hits == {j \in 1..Len(RouteTable) : RouteMatches(RouteTable[j], method, segs)}
    IN IF hits = {} THEN "none"
       ELSE RouteTable[CHOOSE j \in hits : \A k \in hits : j <= k].handler

\* requests to /api/optimize: batches of one to five stored identifiers, and
\* single optimizes of tokens that are not stored
RouterInputs ==
    {[method |-> "POST", segs |-> <<BatchSegment>>, isArray |-> TRUE, items |-> b] :
        b \in {<<AsinA>>, <<AsinA, AsinB>>, <<AsinA, AsinB, AsinA, AsinB, AsinA>>}}
    \cup {[method |-> "POST", segs |-> <<a>>, isArray |-> FALSE, items |-> <<>>] :
             a \in {AsinC, ShortA}}

\* a request arrives at the router and the handler it is dispatched to starts
RouterDispatch ==
    /\ Arrives
    /\ \E in \in RouterInputs :
          LET h == Dispatch(in.method, in.segs)
              single == [NewRequest("single", <<in.segs[1]>>) EXCEPT !.input = in]
              multi == [NewRequest("batch", in.items) EXCEPT !.input = in]
          IN reqs' = Append(reqs,
                IF h = "single"
                THEN [single EXCEPT !.pc = "selectProduct", !.queries = 1]
                ELSE IF h = "batch"
                THEN IF ~in.isArray \/ Len(in.items) = 0 THEN Respond(multi, 400, "", 0)
                     ELSE IF Len(in.items) > MaxOptimizeBatch THEN Respond(multi, 400, "", 0)
                     ELSE [multi EXCEPT !.pc = "selectProducts", !.queries = 1]
                ELSE Respond([NewRequest("none", <<>>) EXCEPT !.input = in], 404, "", 0))
    /\ UNCHANGED <<now, engineVars, storeVars, faults>>

NextRouter ==
    \/ RouterDispatch
    \/ OptimizeSelectProduct
    \/ StoreStatementFails

SpecRouter == InitOptimize /\ [][NextRouter]_vars

\* C22: a POST /api/optimize/batch carrying one to five stored identifiers
\* is handled by the batch handler, never by the single handler with
\* 'batch' taken as the identifier.
C22_BatchReachesBatchHandler ==
    \A q \in Requests :
        (/\ q.input # <<>>
         /\ q.input.method = "POST" /\ q.input.segs = <<BatchSegment>>
         /\ q.input.isArray /\ Len(q.input.items) \in 1..MaxOptimizeBatch)
            => /\ q.kind = "batch"
               /\ q.asins = q.input.items

(***************************************************************************)
(* GeminiOptimizer.generateKeywords: from the service's response text to   *)
(* the keyword list.                                                       *)
(***************************************************************************)

MaxPieces == 6
MaxKeywords == 5

\* what stands between two commas of a response
ResponsePieces == {<<>>, <<" ">>, <<"a">>, <<" ", "b">>, <<"c", " ">>}

RECURSIVE JoinWithCommas(_)
\* the response text made of the pieces with a comma between neighbours
JoinWithCommas(pieces) ==
    IF Len(pieces) = 1 THEN pieces[1]
    ELSE pieces[1] \o <<",">> \o JoinWithCommas(Tail(pieces))

ResponseInputs ==
    UNION {[1..n -> ResponsePieces] : n \in 1..MaxPieces}

\* a slip that returns every keyword of the response
generateKeywordsUntruncated(text) ==
    NonEmpty(MapTrim(split(trim(text))))

\* generateKeywords from response.text() on
generateKeywords(text) ==
    LET keywords == NonEmpty(MapTrim(split(trim(text))))
    IN  SubSeq(keywords, 1, IF Len(keywords) < MaxKeywords THEN Len(keywords)
                            ELSE MaxKeywords)

InitGenerateKeywords ==
    /\ now = StartTime
    /\ IdleEngine
    /\ EmptyStore
    /\ \E pieces \in ResponseInputs :
          reqs = <<[NewRequest("generateKeywords", <<>>) EXCEPT
                        !.input = [pieces |-> pieces, text |-> JoinWithCommas(pieces)]]>>
    /\ faults = 0

\* the keyword call answers and its text is turned into the list
KeywordsGenerated ==
    /\ reqs[1].pc = "start"
    /\ reqs' = [reqs EXCEPT ![1] =
          [@ EXCEPT !.pc = "done",
                    !.data = [keywords |-> generateKeywords(reqs[1].input.text)]]]
    /\ UNCHANGED <<now, engineVars, storeVars, faults>>

NextGenerateKeywords == KeywordsGenerated

SpecGenerateKeywords == InitGenerateKeywords /\ [][NextGenerateKeywords]_vars

\* position in pieces of the n-th piece that is not blank, 0 when there is none
RECURSIVE NthNonBlank(_, _, _)
NthNonBlank(pieces, n, from) ==
    IF from > Len(pieces) THEN 0
    ELSE IF \E c \in Range(pieces[from]) : c # " "
         THEN IF n = 1 THEN from ELSE NthNonBlank(pieces, n - 1, from + 1)
         ELSE NthNonBlank(pieces, n, from + 1)

\* C25: the keyword list has at most 5 entries, none empty, none with a
\* blank at either end, and its n-th entry is the n-th non-blank
\* comma-separated piece of the response without its surrounding blanks;
\* it ends only when the pieces run out or five are taken.
C25_KeywordsTrimmedAndCapped ==
    reqs[1].kind = "generateKeywords" /\ reqs[1].pc = "done" =>
        LET kws == reqs[1].data.keywords
            pieces == reqs[1].input.pieces
        IN  /\ Len(kws) <= MaxKeywords
            /\ \A n \in 1..Len(kws) :
                  /\ kws[n] # <<>>
                  /\ Head(kws[n]) # " " /\ kws[n][Len(kws[n])] # " "
                  /\ NthNonBlank(pieces, n, 1) # 0
                  /\ \E a, b \in {<<>>, <<" ">>} :
                        pieces[NthNonBlank(pieces, n, 1)] = a \o kws[n] \o b
            /\ Len(kws) < MaxKeywords => NthNonBlank(pieces, Len(kws) + 1, 1) = 0

\* a response with six keywords, blank and empty pieces among them, cut to
\* the first five
C25_Witness ==
    /\ reqs[1].kind = "generateKeywords" /\ reqs[1].pc = "done"
    /\ reqs[1].input.pieces = <<<<" ", "b">>, <<"a">>, <<"c", " ">>, <<"a">>, <<"a">>, <<"a">>>>
    /\ reqs[1].data.keywords = <<<<"b">>, <<"a">>, <<"c">>, <<"a">>, <<"a">>>>

(***************************************************************************)
(* The paginated reads: GET /api/products, GET /api/history/:asin and      *)
(* GET /api/history.                                                       *)
(***************************************************************************)

MaxRows == 3

ProductsDefault == 20
ProductsCap == 100
HistoryDefault == 10
HistoryCap == 50
FilteredDefault == 20
FilteredCap == 100

PageRoutes == {"listProducts", "getHistory", "getHistoryFiltered"}

DefaultLimit(route) ==
    CASE route = "listProducts" -> ProductsDefault
      [] route = "getHistory" -> HistoryDefault
      [] OTHER -> FilteredDefault

LimitCap(route) ==
    CASE route = "listProducts" -> ProductsCap
      [] route = "getHistory" -> HistoryCap
      [] OTHER -> FilteredCap

\* a value of req.query: undefined, or the text of the parameter
Absent == [present |-> FALSE, text |-> <<>>]
Given(text) == [present |-> TRUE, text |-> text]

PageValues ==
    {Absent, Given(<<"-", "1">>), Given(<<"0">>), Given(<<"1">>), Given(<<"2">>),
     Given(<<"3">>)}

LimitValues ==
    {Absent, Given(<<"-", "1">>), Given(<<"0">>), Given(<<"1">>), Given(<<"2">>),
     Given(<<"6", "0">>), Given(<<"1", "0", "1">>), Given(<<"x">>)}

DigitValue(c) == CHOOSE n \in 0..9 : Digit(n) = c

RECURSIVE DigitsValue(_)
DigitsValue(s) ==
    IF s = <<>> THEN 0
    ELSE DigitsValue(SubSeq(s, 1, Len(s) - 1)) * 10 + DigitValue(s[Len(s)])

NaN == [nan |-> TRUE, n |-> 0]

\* parseInt of a query value: blanks, a sign, then the leading digits
parseInt(v) ==
    IF ~v.present THEN NaN
    ELSE LET s == v.text
             i == SkipWs(s, 1)
             signed == i <= Len(s) /\ s[i] \in {"-", "+"}
             j == IF signed THEN i + 1 ELSE i
             k == EndOfDigits(s, j)
         IN IF k = j THEN NaN
            ELSE [nan |-> FALSE,
                  n |-> (IF signed /\ s[i] = "-" THEN -1 ELSE 1)
                            * DigitsValue(SubSeq(s, j, k - 1))]

\* parseInt(x) || d
OrDefault(p, d) == IF p.nan \/ p.n = 0 THEN d ELSE p.n

\* the date filters of GET /api/history: absent, or an instant
NoDate == [present |-> FALSE, at |-> 0]
DateAt(t) == [present |-> TRUE, at |-> t]
Later == DbNow(StartTime) + 2 * Hour

\* what the optimize routes have stored: up to MaxRows optimizations of the
\* two products, in the order of their creation
RowTimes(n) ==
    {ts \in [1..n -> {DbNow(StartTime), Later}] :
        \A i, j \in 1..n : i < j => ts[i] <= ts[j]}

OptimizationStores ==
    UNION {{[j \in 1..n |-> [id |-> j,
                             productId |-> IF as[j] = AsinA THEN 1 ELSE 2,
                             asin |-> as[j], keywords |-> stringify(<<K1, K2>>),
                             createdAt |-> ts[j]]] :
               as \in [1..n -> {AsinA, AsinB}], ts \in RowTimes(n)} :
           n \in 0..MaxRows}

PageInputs ==
    {[route |-> r, page |-> p, limit |-> l, startDate |-> sd, endDate |-> ed] :
        r \in PageRoutes, p \in PageValues, l \in LimitValues,
        sd \in {NoDate, DateAt(Later)}, ed \in {NoDate, DateAt(DbNow(StartTime))}}

\* the rows in the store when the read comes, and the read
InitPaginate ==
    /\ now = StartTime + 3 * Hour
    /\ IdleEngine
    /\ tables = AllTables
    /\ products = StoredProducts(StartTime)
    /\ optimizations \in OptimizationStores
    /\ autoInc = [products |-> 3, optimizations |-> Len(optimizations) + 1]
    /\ history = [j \in 1..Len(optimizations) |->
                     [asin |-> optimizations[j].asin, optimizationId |-> j,
                      actionType |-> "created", createdAt |-> optimizations[j].createdAt]]
    /\ keywordTracking = {<<o.asin, k>> : o \in Range(optimizations), k \in {K1, K2}}
    /\ \E in \in PageInputs :
          /\ in.route # "getHistoryFiltered" => ~in.startDate.present /\ ~in.endDate.present
          /\ reqs = <<[NewRequest(in.route, IF in.route = "getHistory" THEN <<AsinA>> ELSE <<>>)
                          EXCEPT !.input = in]>>
    /\ faults = 0

\* the rows a route pages over and the instant it orders them by
PageRows(q) ==
    CASE q.kind = "listProducts" ->
            {[id |-> p.id, at |-> p.updatedAt] : p \in Range(products)}
      [] q.kind = "getHistory" ->
            {[id |-> o.id, at |-> o.createdAt] :
                o \in {x \in Range(optimizations) : SqlEq(x.asin, q.asins[1])}}
      [] OTHER ->
            {[id |-> o.id, at |-> o.createdAt] :
                o \in {x \in Range(optimizations) :
                         /\ q.input.startDate.present => x.createdAt >= q.input.startDate.at
                         /\ q.input.endDate.present => x.createdAt <= q.input.endDate.at}}

\* the table a route counts and selects from
PageTable(q) == IF q.kind = "listProducts" THEN "products" ELSE "optimizations"

\* ORDER BY ... DESC: the orders the statement may return the rows in (rows
\* of equal instant come in no defined order)
OrderedDesc(rows) ==
    {seq \in [1..Cardinality(rows) -> rows] :
        /\ \A i, j \in 1..Cardinality(rows) : i # j => seq[i] # seq[j]
        /\ \A i, j \in 1..Cardinality(rows) : i < j => seq[i].at >= seq[j].at}

\* LIMIT limit OFFSET offset of an ordered result
LimitOffset(seq, limit, offset) ==
    SubSeq(seq, offset + 1, Min(offset + limit, Len(seq)))

\* Math.ceil(total / limit) for a positive limit
CeilDiv(total, limit) == (total + limit - 1) \div limit

\* the page, limit and offset lines of the three routes; the COUNT statement
\* is issued.  In the paginated reads queries counts the statements that
\* were answered, pending those issued and not answered yet; decoded tells
\* whether the server hands a JSON column over decoded.
PageParsed ==
    /\ reqs[1].kind \in PageRoutes /\ reqs[1].pc = "start"
    /\ \E decoded \in BOOLEAN :
          LET q == reqs[1]
              page == OrDefault(parseInt(q.input.page), 1)
              limit == Min(OrDefault(parseInt(q.input.limit), DefaultLimit(q.kind)),
                           LimitCap(q.kind))
          IN reqs' = <<[q EXCEPT !.pc = "count", !.pending = 1,
                                 !.data = [page |-> page, limit |-> limit,
                                           offset |-> (page - 1) * limit,
                                           total |-> 0, rows |-> <<>>, totalPages |-> 0,
                                           hasNext |-> FALSE, hasPrev |-> FALSE,
                                           decoded |-> decoded]]>>
    /\ UNCHANGED <<now, engineVars, storeVars, faults>>

\* a statement of a paginated read was answered
PageHeard(q) == [q EXCEPT !.queries = @ + 1, !.pending = @ - 1]

\* SELECT COUNT(*) as total is answered; the SELECT of the page is issued
PageCounted ==
    /\ reqs[1].kind \in PageRoutes /\ reqs[1].pc = "count"
    /\ reqs' = <<IF PageTable(reqs[1]) \notin tables
                 THEN Fail(reqs[1], NoSuchTable(PageTable(reqs[1])))
                 ELSE [PageHeard(reqs[1]) EXCEPT
                          !.pc = "select", !.pending = 1,
                          !.data.total = Cardinality(PageRows(reqs[1]))]>>
    /\ UNCHANGED <<now, engineVars, storeVars, faults>>

\* the pagination block of the response
PageAnswer(q) ==
    LET d == q.data
        totalPages == CeilDiv(d.total, d.limit)
    IN Respond([q EXCEPT !.data.totalPages = totalPages,
                         !.data.hasNext = d.page < totalPages,
                         !.data.hasPrev = d.page > 1],
               200, "", 0)

\* SELECT ... ORDER BY ... DESC LIMIT .. OFFSET .. is answered: the server
\* refuses a negative LIMIT or OFFSET; GET /api/products binds both as
\* numeric parameters of a prepared statement, which some servers refuse as
\* well.  GET /api/history/:asin then issues one SELECT of the actions per
\* row, all in the same turn.
PageSelected ==
    /\ reqs[1].kind \in PageRoutes /\ reqs[1].pc = "select"
    /\ LET q == PageHeard(reqs[1])
           d == q.data
       IN IF d.limit < 0 \/ d.offset < 0
          THEN reqs' = <<[Fail(reqs[1], MsgSyntax) EXCEPT !.failedAt = "sql"]>>
          ELSE \E seq \in OrderedDesc(PageRows(q)), accepts \in BOOLEAN :
                 LET q1 == [q EXCEPT !.data.rows = LimitOffset(seq, d.limit, d.offset)]
                 IN reqs' = <<
                      IF q.kind = "listProducts"
                      THEN IF accepts THEN PageAnswer(q1)
                           ELSE [Fail(reqs[1], MsgArguments) EXCEPT
                                    !.failedAt = "limitParameter"]
                      ELSE IF q.kind = "getHistory" /\ q1.data.rows # <<>>
                           THEN [q1 EXCEPT !.pc = "actions",
                                           !.pending = Len(q1.data.rows)]
                           ELSE PageAnswer(q1)>>
    /\ UNCHANGED <<now, engineVars, storeVars, faults>>

\* one SELECT of the actions of a row is answered, in a turn of its own, and
\* the mapper of the row goes on: JSON.parse is applied to
\* optimization_metadata, which throws on a decoded object, so that
\* Promise.all rejects and the catch block answers 500 at once.  The
\* statements of the other rows are answered whether or not the response
\* has been sent; the response is sent when the last mapper has returned.
PageActionsRead ==
    /\ reqs[1].kind = "getHistory" /\ reqs[1].pending > 0
    /\ reqs[1].pc \in {"actions", "done"}
    /\ LET q == PageHeard(reqs[1]) IN
       reqs' = <<IF q.pc = "done" THEN q
                 ELSE IF q.data.decoded
                 THEN Respond([q EXCEPT !.failedAt = "metadata"], 500, "", 0)
                 ELSE IF q.pending = 0 THEN PageAnswer(q)
                 ELSE q>>
    /\ UNCHANGED <<now, engineVars, storeVars, faults>>

NextPaginate ==
    \/ PageParsed
    \/ PageCounted
    \/ PageSelected
    \/ PageActionsRead
    \/ StoreStatementFails

SpecPaginate == InitPaginate /\ [][NextPaginate]_vars

\* the request gave a page of at least 1 and a limit of at least 1 or none
PositivePaging(q) ==
    /\ ~parseInt(q.input.page).nan /\ parseInt(q.input.page).n >= 1
    /\ ~q.input.limit.present \/ (~parseInt(q.input.limit).nan /\ parseInt(q.input.limit).n >= 1)

\* C26: a paginated read with page >= 1 and limit >= 1 (or no limit) that
\* the store does not fail answers with the page size min(limit, cap), or
\* the default without a limit, at most that many records with the most
\* recent first, totalPages = ceil(total / page size), hasNext iff
\* page < totalPages and hasPrev iff page > 1.
C26_PaginationMetadata ==
    LET q == reqs[1] IN
    (q.kind \in PageRoutes /\ q.pc = "done" /\ PositivePaging(q) /\ q.failedAt \notin StorePcs) =>
        LET d == q.data
            size == IF q.input.limit.present
                    THEN Min(parseInt(q.input.limit).n, LimitCap(q.kind))
                    ELSE DefaultLimit(q.kind)
        IN /\ q.resp.status = 200
           /\ d.page = parseInt(q.input.page).n
           /\ d.limit = size
           /\ Len(d.rows) <= size
           /\ \A i, j \in 1..Len(d.rows) : i < j => d.rows[i].at >= d.rows[j].at
           /\ d.totalPages * size >= d.total /\ (d.totalPages - 1) * size < d.total
           /\ d.hasNext <=> d.page < d.totalPages
           /\ d.hasPrev <=> d.page > 1

\* C30: whatever integers are given as page and limit, the page used is at
\* least 1, the page size lies in 1..cap, the offset is not negative, and no
\* statement with a negative or zero LIMIT or a negative OFFSET is issued.
C30_PagingArgumentsClamped ==
    LET q == reqs[1] IN
    (q.kind \in PageRoutes /\ q.pc # "start") =>
        /\ q.data.page >= 1
        /\ q.data.limit \in 1..LimitCap(q.kind)
        /\ q.data.offset >= 0
        /\ q.failedAt # "sql"

====
